---------------------------- MODULE Spec2Model ----------------------------
(***************************************************************************)
(* Model of the cutting-line geometry engine of the laser-cutting quote    *)
(* service (src/src/domain/calculator/cutting_line_generator.py).          *)
(*                                                                         *)
(* A mask is the set of its foreground (255) pixels on a GridW x GridH     *)
(* image; a pixel is <<x, y>>.  Real-valued quantities (millimetres, the   *)
(* px/mm scale, pixel offsets) are exact rationals <<n, d>> with d > 0.    *)
(* Every millimetre value the model draws is a dyadic rational, so binary  *)
(* floating point computes the same values as the rationals here.          *)
(***************************************************************************)
EXTENDS Integers, FiniteSets, Sequences, TLC

\* ----------------------------------------------------------------- bounds
GridW == 5
GridH == 5

\* ------------------------------------------------------------- arithmetic
Max(a, b) == IF a >= b THEN a ELSE b
Min(a, b) == IF a <= b THEN a ELSE b
Abs(a) == IF a >= 0 THEN a ELSE -a

\* Exact rationals <<n, d>>, d > 0.
RInt(n) == <<n, 1>>
RMul(a, b) == <<a[1] * b[1], a[2] * b[2]>>
RAdd(a, b) == <<a[1] * b[2] + b[1] * a[2], a[2] * b[2]>>
RHalf(a) == <<a[1], 2 * a[2]>>
RPos(a) == a[1] > 0
RLe(a, b) == a[1] * b[2] <= b[1] * a[2]
\* Python int(): truncation toward zero.
Trunc(a) == IF a[1] >= 0 THEN a[1] \div a[2] ELSE -((-a[1]) \div a[2])
\* math.ceil
Ceil(a) == -((-a[1]) \div a[2])
\* n | 1 for a non-negative integer n
OrOne(n) == IF n % 2 = 1 THEN n ELSE n + 1

RECURSIVE Gcd(_, _)
Gcd(a, b) == IF b = 0 THEN a ELSE Gcd(b, a % b)
RNorm(a) ==
    LET g == Gcd(Abs(a[1]), a[2])
    IN  <<a[1] \div g, a[2] \div g>>

\* ------------------------------------------------------------------ masks
Cols == 0 .. (GridW - 1)
Rows == 0 .. (GridH - 1)
Pixels == Cols \X Rows

\* The set S itself, held as an enumerated set: an image is an array of
\* pixels, computed once by the operation that produces it.
Image(S) == {p : p \in S}

\* cv2.boundingRect of a pixel set: [x, y, bw, bh].
BoundingRect(S) ==
    LET xs == {p[1] : p \in S}
        ys == {p[2] : p \in S}
        x0 == CHOOSE v \in xs : \A u \in xs : v <= u
        x1 == CHOOSE v \in xs : \A u \in xs : v >= u
        y0 == CHOOSE v \in ys : \A u \in ys : v <= u
        y1 == CHOOSE v \in ys : \A u \in ys : v >= u
    IN  [x |-> x0, y |-> y0, bw |-> x1 - x0 + 1, bh |-> y1 - y0 + 1]

\* cv2 BORDER_REFLECT_101 (the default border of GaussianBlur): index i of a
\* line of n pixels, mirrored about the first and last pixel.
RECURSIVE Reflect101(_, _)
Reflect101(i, n) ==
    IF n = 1 THEN 0
    ELSE IF i < 0 THEN Reflect101(-i, n)
    ELSE IF i >= n THEN Reflect101(2 * (n - 1) - i, n)
    ELSE i

\* The fixed kernels cv2.GaussianBlur uses for sigma = 0 and ksize <= 7,
\* as integer weights (their sum is GaussSum(k)).
GaussKernel(k) ==
    CASE k = 3 -> <<1, 2, 1>>
      [] k = 5 -> <<1, 4, 6, 4, 1>>
      [] k = 7 -> <<2, 7, 14, 18, 14, 7, 2>>
GaussSum(k) ==
    CASE k = 3 -> 4
      [] k = 5 -> 16
      [] k = 7 -> 64

\* Weighted foreground coverage of pixel p under the separable k x k kernel.
GaussWeight(M, k, p) ==
    LET r == k \div 2
        ker == GaussKernel(k)
        RowW[j \in 1 .. k] ==
            LET yy == Reflect101(p[2] + j - 1 - r, GridH)
                ColW[i \in 0 .. k] ==
                    IF i = 0 THEN 0
                    ELSE ColW[i - 1]
                         + (IF <<Reflect101(p[1] + i - 1 - r, GridW), yy>> \in M
                            THEN ker[i] ELSE 0)
            IN  ColW[k]
        Acc[j \in 0 .. k] ==
            IF j = 0 THEN 0 ELSE Acc[j - 1] + ker[j] * RowW[j]
    IN  Acc[k]

\* cv2.GaussianBlur(mask, (k, k), 0) followed by
\* cv2.threshold(_, 127, 255, THRESH_BINARY): the blurred 8-bit value is
\* 255 * weight / sum^2 rounded to nearest, and the pixel stays foreground
\* when that value exceeds 127.
BlurThreshold(M, k) ==
    LET den == GaussSum(k) * GaussSum(k)
    IN  Image({p \in Pixels :
            ((255 * GaussWeight(M, k, p) + (den \div 2)) \div den) > 127})

\* cv2.getStructuringElement(MORPH_ELLIPSE, (k, k)): offsets from the anchor.
EllipseKernel(k) ==
    LET r == k \div 2
        HalfWidth(dy) ==
            LET ok == {n \in 1 .. r :
                          (2 * n - 1) * (2 * n - 1) <= 4 * (r * r - dy * dy)}
            IN  IF ok = {} THEN 0 ELSE CHOOSE n \in ok : \A m \in ok : n >= m
    IN  {d \in ((-r) .. r) \X ((-r) .. r) : Abs(d[1]) <= HalfWidth(d[2])}

\* One pass of cv2.dilate (constant border: nothing outside the image).
DilateOnce(M, K) ==
    Image({p \in Pixels : \E d \in K : <<p[1] + d[1], p[2] + d[2]>> \in M})

RECURSIVE Dilate(_, _, _)
Dilate(M, K, iterations) ==
    IF iterations = 0 THEN M ELSE Dilate(DilateOnce(M, K), K, iterations - 1)


\* --------------------------------------------------------------- contours
Adjacent8(p, q) == p # q /\ Abs(p[1] - q[1]) <= 1 /\ Abs(p[2] - q[2]) <= 1
Adjacent4(p, q) == Abs(p[1] - q[1]) + Abs(p[2] - q[2]) = 1

\* The 8-connected region of M grown from the pixel set S.
RECURSIVE Grow8(_, _)
Grow8(M, S) ==
    LET N == Image({p \in M \ S : \E q \in S : Adjacent8(p, q)})
    IN  IF N = {} THEN S ELSE Grow8(M, S \cup N)

\* The 4-connected region of M grown from the pixel set S.
RECURSIVE Grow4(_, _)
Grow4(M, S) ==
    LET N == Image({p \in M \ S : \E q \in S : Adjacent4(p, q)})
    IN  IF N = {} THEN S ELSE Grow4(M, S \cup N)

\* cv2.findContours(M, RETR_EXTERNAL, CHAIN_APPROX_SIMPLE): one outer contour
\* per 8-connected foreground region.  A contour is kept as the pixel set of
\* its region; the point sequence is the region's outer border.
RECURSIVE FindContours(_)
FindContours(M) ==
    IF M = {} THEN {}
    ELSE LET seed == CHOOSE p \in M : TRUE
             comp == Grow8(M, {seed})
         IN  {comp} \cup FindContours(Image(M \ comp))

\* The pixels on or inside the outer border of region C: C and every pixel
\* that no 4-connected path avoiding C joins to the image frame.  This is what
\* cv2.drawContours(_, [contour], -1, 255, -1) paints.
FillContour(C) ==
    LET free == Image(Pixels \ C)
        frame == Image({p \in free : p[1] = 0 \/ p[1] = GridW - 1
                                     \/ p[2] = 0 \/ p[2] = GridH - 1})
    IN  Image(Pixels \ Grow4(free, frame))

\* Twice cv2.contourArea(contour): the outer border is a lattice polygon
\* through the border pixels' centres; a unit cell adds 1 to the area when
\* all four of its corners are on or inside the border, and 1/2 when three
\* are (the border cuts the cell along its diagonal).
ContourArea2(C) ==
    LET F == FillContour(C)
        Corners(x, y) ==
            Cardinality({<<x, y>>, <<x + 1, y>>, <<x, y + 1>>, <<x + 1, y + 1>>}
                        \cap F)
        CellArea2(x, y) ==
            LET n == Corners(x, y)
            IN  IF n = 4 THEN 2 ELSE IF n = 3 THEN 1 ELSE 0
        RowSum[y \in 0 .. (GridH - 1)] ==
            IF y = 0 THEN 0
            ELSE LET ColSum[x \in 0 .. (GridW - 1)] ==
                         IF x = 0 THEN 0
                         ELSE ColSum[x - 1] + CellArea2(x - 1, y - 1)
                 IN  RowSum[y - 1] + ColSum[GridW - 1]
    IN  RowSum[GridH - 1]

\* max(contours, key=cv2.contourArea): every contour of maximal area; which of
\* several equal ones max() returns depends on the order findContours lists
\* them in, so each is a possible outcome.
LargestContours(M) ==
    LET cs == FindContours(M)
    IN  {c \in cs : \A d \in cs : ContourArea2(c) >= ContourArea2(d)}

\* -------------------------------------------------- generate_offset_contour
PreBlurSize == OrOne(Max(7, Min(GridH, GridW) \div 60))
KernelSize(offset_px) == Max(3, OrOne(Trunc(RMul(offset_px, RInt(2)))))
Iterations(offset_px) ==
    Max(1, Ceil(<<2 * offset_px[1], offset_px[2] * KernelSize(offset_px)>>))
EdgeBlurSize(offset_px) == OrOne(Max(3, Trunc(RHalf(offset_px))))

\* The binary image the contour is extracted from when offset_px > 0:
\* pre-smoothing, dilation, edge smoothing.
ExpandedMask(M, offset_px) ==
    LET pre_smoothed == BlurThreshold(M, PreBlurSize)
        expanded == Dilate(pre_smoothed, EllipseKernel(KernelSize(offset_px)),
                           Iterations(offset_px))
    IN  BlurThreshold(expanded, EdgeBlurSize(offset_px))

\* generate_offset_contour(mask, offset_px): the set of (contour, mask) pairs
\* it can return; the empty set stands for (None, None).  alias tells whether
\* the returned mask is the argument array itself (never, in the code: either
\* mask.copy() or a new np.zeros array).
DegenerateOffsetNoCopy(M) ==
    {[contour |-> c, mask |-> M, alias |-> TRUE] : c \in LargestContours(M)}

DegenerateOffsetRedrawn(M) ==
    {[contour |-> c, mask |-> FillContour(c), alias |-> FALSE] :
        c \in LargestContours(M)}

DegenerateOffset(M) ==
    {[contour |-> c, mask |-> M, alias |-> FALSE] : c \in LargestContours(M)}

PositiveOffset(M, offset_px) ==
    {[contour |-> c, mask |-> FillContour(c), alias |-> FALSE] :
        c \in LargestContours(ExpandedMask(M, offset_px))}

GenerateOffsetContour(M, offset_px) ==
    IF ~RPos(offset_px) THEN DegenerateOffset(M)
    ELSE PositiveOffset(M, offset_px)


\* --------------------------------------------------------- hole placement
Positions == {"top", "bottom", "left", "right", "center"}
ProductTypes == {"objet", "keyring"}
HoleTypes == {"ring", "internal"}

CalculateKeyringHoleInward(box, position, hole_diameter_px, edge_distance_px) ==
    LET hole_r == Trunc(RHalf(hole_diameter_px))
        dist == Trunc(edge_distance_px)
        c == CASE position = "top" ->
                    <<box.x + box.bw \div 2, box.y + dist + hole_r>>
               [] position = "bottom" ->
                    <<box.x + box.bw \div 2, box.y + box.bh - dist - hole_r>>
               [] position = "left" ->
                    <<box.x + dist + hole_r, box.y + box.bh \div 2>>
               [] position = "right" ->
                    <<box.x + box.bw - dist - hole_r, box.y + box.bh \div 2>>
               [] OTHER ->
                    <<box.x + box.bw \div 2, box.y + dist + hole_r>>
    IN  [hole_center |-> c, hole_r |-> hole_r]

CalculateKeyringHoleNoRadius(box, position, hole_diameter_px, edge_distance_px) ==
    LET hole_r == Trunc(RHalf(hole_diameter_px))
        dist == Trunc(edge_distance_px)
        c == CASE position = "top" -> <<box.x + box.bw \div 2, box.y - dist>>
               [] position = "bottom" ->
                    <<box.x + box.bw \div 2, box.y + box.bh + dist>>
               [] position = "left" -> <<box.x - dist, box.y + box.bh \div 2>>
               [] position = "right" ->
                    <<box.x + box.bw + dist, box.y + box.bh \div 2>>
               [] OTHER -> <<box.x + box.bw \div 2, box.y - dist>>
    IN  [hole_center |-> c, hole_r |-> hole_r]

\* _calculate_keyring_hole: box is cv2.boundingRect(cutting_contour).
CalculateKeyringHole(box, position, hole_diameter_px, edge_distance_px) ==
    LET hole_r == Trunc(RHalf(hole_diameter_px))
        dist == Trunc(edge_distance_px)
        c == CASE position = "top" ->
                    <<box.x + box.bw \div 2, box.y - dist - hole_r>>
               [] position = "bottom" ->
                    <<box.x + box.bw \div 2, box.y + box.bh + dist + hole_r>>
               [] position = "left" ->
                    <<box.x - dist - hole_r, box.y + box.bh \div 2>>
               [] position = "right" ->
                    <<box.x + box.bw + dist + hole_r, box.y + box.bh \div 2>>
               [] OTHER ->
                    <<box.x + box.bw \div 2, box.y - dist - hole_r>>
    IN  [hole_center |-> c, hole_r |-> hole_r]

\* The centre _calculate_internal_hole computes before clamping it.
InternalHoleUnclamped(box, position, edge_distance_px) ==
    LET dist == Trunc(edge_distance_px)
    IN  CASE position = "top" -> <<box.x + box.bw \div 2, box.y + dist>>
          [] position = "bottom" ->
                <<box.x + box.bw \div 2, box.y + box.bh - dist>>
          [] position = "left" -> <<box.x + dist, box.y + box.bh \div 2>>
          [] position = "right" ->
                <<box.x + box.bw - dist, box.y + box.bh \div 2>>
          [] OTHER -> <<box.x + box.bw \div 2, box.y + dist>>

ClampUpperOnly(lo, hi, v) == Min(hi, v)

\* max(lo, min(hi, v))
Clamp(lo, hi, v) == Max(lo, Min(hi, v))

\* _calculate_internal_hole: w, h are the cutting mask's width and height.
CalculateInternalHole(box, w, h, position, hole_w_px, hole_h_px, edge_distance_px) ==
    LET hw == Trunc(RHalf(hole_w_px))
        hh == Trunc(RHalf(hole_h_px))
        c == InternalHoleUnclamped(box, position, edge_distance_px)
    IN  [hole_center |-> <<Clamp(hw + 2, w - hw - 2, c[1]),
                           Clamp(hh + 2, h - hh - 2, c[2])>>,
         hole_size |-> <<Trunc(hole_w_px), Trunc(hole_h_px)>>]

TabMarginMm == RInt(1)
GetKeyringSizeAdditionMmSwapped(position, keyring_hole) ==
    LET protrusion == RAdd(RAdd(keyring_hole.edge_distance_mm,
                                keyring_hole.diameter_mm), TabMarginMm)
    IN  IF position \in {"top", "bottom"} THEN <<protrusion, RInt(0)>>
        ELSE <<RInt(0), protrusion>>

\* get_keyring_size_addition_mm: (width_addition_mm, height_addition_mm).
GetKeyringSizeAdditionMm(position, keyring_hole) ==
    LET protrusion == RAdd(RAdd(keyring_hole.edge_distance_mm,
                                keyring_hole.diameter_mm), TabMarginMm)
    IN  IF position \in {"top", "bottom"} THEN <<RInt(0), protrusion>>
        ELSE <<protrusion, RInt(0)>>

EllipsePixelsAsBox(center, axes) ==
    Image({p \in Pixels : /\ Abs(p[1] - center[1]) <= axes[1]
                          /\ Abs(p[2] - center[2]) <= axes[2]})

\* The pixels cv2.ellipse(img, center, axes, 0, 0, 360, 0, -1) paints: cv2
\* fills the polygon it inscribes in the ellipse, which for half-axes under 3
\* is the diamond through the four ends of the axes.  The model's hole sizes
\* keep both half-axes under 3.
EllipsePixels(center, axes) ==
    LET a == axes[1]
        b == axes[2]
    IN  Image({p \in Pixels :
            /\ Abs(p[1] - center[1]) <= a
            /\ Abs(p[2] - center[2]) <= b
            /\ Abs(p[1] - center[1]) * b + Abs(p[2] - center[2]) * a <= a * b})


\* ------------------------------------------------- generate_cutting_lines
VARIABLES
    pc,                 \* position in generate_cutting_lines
    heap,               \* the mask arrays, by reference
    size_mm,            \* argument size_mm = (w_mm, h_mm)
    config,             \* the offsets read from the cutting configuration
    scale,              \* px per mm
    print_offset_px,
    cutting_offset_px,
    print_stage,        \* (print_contour, print_mask) of stage 1
    cutting_stage,      \* (cutting_contour, cutting_mask) of stage 2
    result,             \* the CuttingLineResult returned, or NoResult for None
    given,              \* the caller's mask as it was when the call was made
    hole_px,            \* the hole dimensions in px that hole placement used
    fn,                 \* the hole function applied on its own, or "none"
    fn_in,              \* its geometry: image size and bounding box
    fn_args,            \* its other arguments
    fn_out              \* what it returned

VARIABLES
    request,            \* the HTTP request an endpoint is handling
    handler,            \* the endpoint's position and local variables
    disk,               \* the files under the upload directory
    response,           \* what the endpoint returned, or NoResponse
    mask_file,          \* the bytes of one cached mask file, in chunks
    writers             \* the save_mask calls in progress on that file

VARIABLES
    session,            \* rembg_service._session: 0 for None, else its number
    new_session_calls,  \* how many times new_session has been invoked
    callers,            \* the calls of _get_session in progress
    orders,             \* the order_ids in orders.json, in file order
    today,              \* the date datetime.now() gives
    image_file,         \* the bytes of temp_<name>, in chunks
    mask_from,          \* the image content the cached mask was made from
    uploaders,          \* the upload_image requests on that name
    paired              \* what update_cutting_lines read: image and mask

pipeVars == <<pc, heap, size_mm, config, scale, print_offset_px,
              cutting_offset_px, print_stage, cutting_stage, result, given,
              hole_px>>
fnVars == <<fn, fn_in, fn_args, fn_out>>
webVars == <<request, handler, disk, response>>
cacheVars == <<mask_file, writers>>
sessionVars == <<session, new_session_calls, callers>>
orderVars == <<orders, today>>
raceVars == <<image_file, mask_from, uploaders, paired>>
procVars == <<sessionVars, orderVars, raceVars>>
vars == <<pipeVars, fnVars, webVars, cacheVars, procVars>>

NoRequest == [endpoint |-> "none"]
NoResponse == [kind |-> "none"]
WebUnused ==
    /\ request = NoRequest
    /\ handler = [pc |-> "unused"]
    /\ disk = {}
    /\ response = NoResponse
CacheUnused ==
    /\ mask_file = <<>>
    /\ writers = <<>>
ProcUnused ==
    /\ session = 0
    /\ new_session_calls = 0
    /\ callers = <<>>
    /\ orders = <<>>
    /\ today = 0
    /\ image_file = <<>>
    /\ mask_from = <<>>
    /\ uploaders = <<>>
    /\ paired = [read |-> FALSE]

Refs == {"mask", "print", "cutting"}
NoStage == [contour |-> {}, ref |-> "mask", out |-> {}]
NoResult == [ok |-> FALSE]
NoHole == [hole_d_px |-> RInt(0), hole_w_px |-> RInt(0),
           hole_h_px |-> RInt(0), edge_d_px |-> RInt(0)]

\* The inputs the model draws.
Rect(x0, y0, x1, y1) ==
    {p \in Pixels : x0 <= p[1] /\ p[1] <= x1 /\ y0 <= p[2] /\ p[2] <= y1}
Masks ==
    {Image(Rect(x0, y0, x1, y1) \cup speck) :
        x0 \in {0, 1}, y0 \in {0, 1}, x1 \in Cols, y1 \in Rows,
        speck \in {{}, {<<GridW - 1, GridH - 1>>}}}
SizesMm == {<<0, 0>>, <<4, 4>>, <<4, 16>>, <<16, 16>>}
OffsetsMm == {RInt(0), RInt(2)}
KeyringHoleCfgs ==
    [diameter_mm : {RInt(1), RInt(4)}, edge_distance_mm : {RInt(0), RInt(3)}]
InternalHoleCfgs ==
    {[width_mm |-> <<3214, 1000>>, height_mm |-> <<3168, 1000>>,
      edge_distance_mm |-> RInt(5)],
     [width_mm |-> RInt(1), height_mm |-> RInt(2), edge_distance_mm |-> RInt(1)],
     [width_mm |-> RInt(2), height_mm |-> RInt(1), edge_distance_mm |-> RInt(0)]}

\* px/mm scale of generate_cutting_lines.
Scale(w_px, h_px, mm) ==
    LET scale_x == IF mm[1] > 0 THEN <<w_px, mm[1]>> ELSE RInt(1)
        scale_y == IF mm[2] > 0 THEN <<h_px, mm[2]>> ELSE RInt(1)
    IN  RNorm(RHalf(RAdd(scale_x, scale_y)))

NoGeometry == [w |-> 0, h |-> 0, box |-> [x |-> 0, y |-> 0, bw |-> 0, bh |-> 0]]
FnUnused ==
    /\ fn = "none"
    /\ fn_in = NoGeometry
    /\ fn_args = <<>>
    /\ fn_out = <<>>

Init ==
    /\ FnUnused
    /\ WebUnused
    /\ CacheUnused
    /\ ProcUnused
    /\ pc = "idle"
    /\ heap \in [Refs -> Masks]
    /\ heap["print"] = {}
    /\ heap["cutting"] = {}
    /\ given = heap["mask"]
    /\ size_mm = <<0, 0>>
    /\ config = [print_offset_mm |-> RInt(0), cutting_offset_mm |-> RInt(0)]
    /\ scale = RInt(1)
    /\ print_offset_px = RInt(0)
    /\ cutting_offset_px = RInt(0)
    /\ print_stage = NoStage
    /\ cutting_stage = NoStage
    /\ result = NoResult
    /\ hole_px = NoHole

\* The call: configuration, scale and the mm -> px conversion of the offsets.
Call ==
    /\ pc = "idle"
    /\ \E mm \in SizesMm, po \in OffsetsMm, co \in OffsetsMm :
          LET sc == Scale(GridW, GridH, mm)
          IN  /\ size_mm' = mm
              /\ config' = [print_offset_mm |-> po, cutting_offset_mm |-> co]
              /\ scale' = sc
              /\ print_offset_px' = RNorm(RMul(po, sc))
              /\ cutting_offset_px' = RNorm(RMul(co, sc))
    /\ pc' = "print"
    /\ UNCHANGED <<heap, print_stage, cutting_stage, result, given, hole_px>>
    /\ UNCHANGED <<fnVars, webVars, cacheVars, procVars>>

\* One offset stage: the (contour, mask) pair r that generate_offset_contour
\* returned for the array src, stored under the reference dst when it is a
\* new array.
StageOf(r, src, dst) ==
    [contour |-> r.contour, ref |-> IF r.alias THEN src ELSE dst,
     out |-> r.mask]

\* Stage 1: the print line, from the caller's mask.
PrintStage ==
    /\ pc = "print"
    /\ LET rs == GenerateOffsetContour(heap["mask"], print_offset_px)
       IN  IF rs = {}
           THEN /\ pc' = "done"
                /\ result' = NoResult
                /\ UNCHANGED <<heap, print_stage>>
           ELSE /\ \E r \in rs :
                      /\ print_stage' = StageOf(r, "mask", "print")
                      /\ heap' = IF r.alias THEN heap
                                 ELSE [heap EXCEPT !["print"] = r.mask]
                /\ pc' = "cutting"
                /\ UNCHANGED result
    /\ UNCHANGED <<size_mm, config, scale, print_offset_px, cutting_offset_px,
                   cutting_stage, given, hole_px>>
    /\ UNCHANGED <<fnVars, webVars, cacheVars, procVars>>

\* Stage 2: the cutting line, from the print mask.
CuttingStage ==
    /\ pc = "cutting"
    /\ LET rs == GenerateOffsetContour(heap[print_stage.ref],
                                       cutting_offset_px)
       IN  IF rs = {}
           THEN /\ pc' = "done"
                /\ result' = NoResult
                /\ UNCHANGED <<heap, cutting_stage>>
           ELSE /\ \E r \in rs :
                      /\ cutting_stage' =
                            StageOf(r, print_stage.ref, "cutting")
                      /\ heap' = IF r.alias THEN heap
                                 ELSE [heap EXCEPT !["cutting"] = r.mask]
                /\ pc' = "holes"
                /\ UNCHANGED result
    /\ UNCHANGED <<size_mm, config, scale, print_offset_px, cutting_offset_px,
                   print_stage, given, hole_px>>
    /\ UNCHANGED <<fnVars, webVars, cacheVars, procVars>>

\* The CuttingLineResult as constructed, before hole placement.
BaseResult(product_type, hole_type, keyring_position) ==
    [ok |-> TRUE,
     print_contour |-> print_stage.contour,
     cutting_contour |-> cutting_stage.contour,
     print_mask |-> print_stage.ref,
     cutting_mask |-> cutting_stage.ref,
     hole_center |-> <<>>,
     hole_radius_px |-> 0,
     hole_size_px |-> <<>>,
     product_type |-> product_type,
     hole_type |-> hole_type,
     keyring_position |-> keyring_position,
     print_offset_px |-> print_offset_px,
     cutting_offset_px |-> cutting_offset_px]

\* Whether hole placement runs.
IsKeyringAnyProduct(product_type) == product_type \in ProductTypes

IsKeyring(product_type) == product_type = "keyring"

\* Internal hole: centre and size, then the cutout punched into the array
\* cutting_mask refers to.
InternalHole(base, ih) ==
    LET hole_w_px == RMul(ih.width_mm, scale)
        hole_h_px == RMul(ih.height_mm, scale)
        edge_d_px == RMul(ih.edge_distance_mm, scale)
        hole == CalculateInternalHole(BoundingRect(cutting_stage.contour),
                    GridW, GridH, base.keyring_position,
                    hole_w_px, hole_h_px, edge_d_px)
        axes == <<hole.hole_size[1] \div 2, hole.hole_size[2] \div 2>>
    IN  /\ result' = [base EXCEPT
                        !.hole_center = hole.hole_center,
                        !.hole_size_px = hole.hole_size,
                        !.hole_radius_px =
                            (hole.hole_size[1] + hole.hole_size[2]) \div 4]
        /\ heap' = [heap EXCEPT ![cutting_stage.ref] =
                        @ \ EllipsePixels(hole.hole_center, axes)]
        /\ hole_px' = [NoHole EXCEPT !.hole_w_px = hole_w_px,
                                     !.hole_h_px = hole_h_px,
                                     !.edge_d_px = edge_d_px]

\* Ring hole: centre and radius only.
RingHole(base, kh) ==
    LET hole_d_px == RMul(kh.diameter_mm, scale)
        edge_d_px == RMul(kh.edge_distance_mm, scale)
        hole == CalculateKeyringHole(BoundingRect(cutting_stage.contour),
                    base.keyring_position, hole_d_px, edge_d_px)
    IN  /\ result' = [base EXCEPT !.hole_center = hole.hole_center,
                                  !.hole_radius_px = hole.hole_r]
        /\ heap' = heap
        /\ hole_px' = [NoHole EXCEPT !.hole_d_px = hole_d_px,
                                     !.edge_d_px = edge_d_px]

\* The result is built and, for a keyring, the hole is placed.  The arguments
\* product_type, hole_type, keyring_position and the hole entries of the
\* configuration are first read here, and are drawn here.
PlaceHole ==
    /\ pc = "holes"
    /\ \E product_type \in ProductTypes, hole_type \in HoleTypes,
          keyring_position \in Positions :
          LET base == BaseResult(product_type, hole_type, keyring_position)
          IN  IF IsKeyring(product_type)
              THEN IF hole_type = "internal"
                   THEN \E ih \in InternalHoleCfgs : InternalHole(base, ih)
                   ELSE \E kh \in KeyringHoleCfgs : RingHole(base, kh)
              ELSE /\ result' = base
                   /\ heap' = heap
                   /\ hole_px' = NoHole
    /\ pc' = "done"
    /\ UNCHANGED <<size_mm, config, scale, print_offset_px, cutting_offset_px,
                   print_stage, cutting_stage, given>>
    /\ UNCHANGED <<fnVars, webVars, cacheVars, procVars>>

Next == Call \/ PrintStage \/ CuttingStage \/ PlaceHole

Spec == Init /\ [][Next]_vars


\* ------------------------------------ the hole functions on their own
\* _calculate_keyring_hole, _calculate_internal_hole and
\* get_keyring_size_addition_mm are pure; each is applied once to inputs drawn
\* from the sets below: any bounding box inside an image, pixel sizes with and
\* without a fractional part.
ImageMax == 7
ImageSides == {ImageMax - 3, ImageMax}
Boxes(w, h) ==
    {[x |-> x, y |-> y, bw |-> bw, bh |-> bh] :
        x \in 0 .. (w - 1), y \in 0 .. (h - 1), bw \in 1 .. w, bh \in 1 .. h}
Geometries ==
    UNION {{[w |-> w, h |-> h, box |-> b] :
                b \in {c \in Boxes(w, h) : c.x + c.bw <= w /\ c.y + c.bh <= h}} :
           w \in ImageSides, h \in ImageSides}
HoleSizesPx == {<<1, 2>>, <<5, 2>>, <<9, 2>>}
EdgesPx == {RInt(0), <<3, 2>>, RInt(4)}

InitFn ==
    /\ WebUnused
    /\ CacheUnused
    /\ ProcUnused
    /\ fn = "none"
    /\ fn_in \in Geometries
    /\ fn_args = <<>>
    /\ fn_out = <<>>
    /\ pc = "unused"
    /\ heap = [r \in Refs |-> {}]
    /\ given = {}
    /\ size_mm = <<0, 0>>
    /\ config = [print_offset_mm |-> RInt(0), cutting_offset_mm |-> RInt(0)]
    /\ scale = RInt(1)
    /\ print_offset_px = RInt(0)
    /\ cutting_offset_px = RInt(0)
    /\ print_stage = NoStage
    /\ cutting_stage = NoStage
    /\ result = NoResult
    /\ hole_px = NoHole

ApplyInternalHole ==
    /\ fn = "none"
    /\ \E position \in Positions, hole_w_px \in HoleSizesPx,
          hole_h_px \in HoleSizesPx, edge_distance_px \in EdgesPx :
          /\ fn_args' = [position |-> position, hole_w_px |-> hole_w_px,
                         hole_h_px |-> hole_h_px,
                         edge_distance_px |-> edge_distance_px]
          /\ fn_out' = CalculateInternalHole(fn_in.box, fn_in.w, fn_in.h,
                            position, hole_w_px, hole_h_px, edge_distance_px)
    /\ fn' = "internal"
    /\ UNCHANGED <<fn_in, pipeVars, webVars, cacheVars, procVars>>

ApplyKeyringHole ==
    /\ fn = "none"
    /\ \E position \in Positions, hole_diameter_px \in HoleSizesPx,
          edge_distance_px \in EdgesPx :
          /\ fn_args' = [position |-> position,
                         hole_diameter_px |-> hole_diameter_px,
                         edge_distance_px |-> edge_distance_px]
          /\ fn_out' = CalculateKeyringHole(fn_in.box, position,
                            hole_diameter_px, edge_distance_px)
    /\ fn' = "ring"
    /\ UNCHANGED <<fn_in, pipeVars, webVars, cacheVars, procVars>>

ApplySizeAddition ==
    /\ fn = "none"
    /\ \E position \in Positions, kh \in KeyringHoleCfgs :
          /\ fn_args' = [position |-> position, keyring_hole |-> kh]
          /\ fn_out' = GetKeyringSizeAdditionMm(position, kh)
    /\ fn' = "size"
    /\ UNCHANGED <<fn_in, pipeVars, webVars, cacheVars, procVars>>

NextFn == ApplyInternalHole \/ ApplyKeyringHole \/ ApplySizeAddition

SpecHole == InitFn /\ [][NextFn]_vars

\* ------------------------------------------- a keyring ring, both functions
\* upload_image passes one keyring_position to generate_cutting_lines, which
\* places the ring with _calculate_keyring_hole, and to
\* get_keyring_size_addition_mm.  Both are applied here to one position and
\* one keyring_hole configuration, at 1 px per mm.
ApplyRingAndAddition ==
    /\ fn = "none"
    /\ \E position \in Positions, kh \in KeyringHoleCfgs :
          /\ fn_args' = [position |-> position, keyring_hole |-> kh]
          /\ fn_out' = [hole |-> CalculateKeyringHole(fn_in.box, position,
                                     kh.diameter_mm, kh.edge_distance_mm),
                        addition |-> GetKeyringSizeAdditionMm(position, kh)]
    /\ fn' = "ring_and_addition"
    /\ UNCHANGED <<fn_in, pipeVars, webVars, cacheVars, procVars>>

NextRing == ApplyRingAndAddition

SpecRing == InitFn /\ [][NextRing]_vars

\* ------------------------------------------------------- shape analysis
\* src/src/domain/calculator/shape_analyzer.py.  A contour is a sequence of
\* integer points <<x, y>>, closed from its last point to its first, whose
\* edges are axis-parallel or 45-degree diagonal runs (the steps of a traced
\* pixel border).  Floating point values are carried as exact rationals;
\* the two irrational constants are replaced by rational approximations.
PiNum == 355
PiDen == 113
Sqrt2Num == 17
Sqrt2Den == 12

\* floor(sqrt(n)) by bisection on lo .. hi.
RECURSIVE ISqrtIn(_, _, _)
ISqrtIn(n, lo, hi) ==
    IF lo >= hi THEN lo
    ELSE LET mid == (lo + hi + 1) \div 2
         IN  IF mid * mid <= n THEN ISqrtIn(n, mid, hi)
             ELSE ISqrtIn(n, lo, mid - 1)
ISqrt(n) == ISqrtIn(n, 0, Min(n, 46340))

\* Python round(v, digits) of a non-negative rational v: the nearest multiple
\* of 10^-digits, ties to the even one, as an integer count of 10^-digits.
\* (r * m) divided by d for 0 <= r < d, by m additions modulo d.
RECURSIVE TimesMod(_, _, _)
TimesMod(r, m, d) ==
    IF m = 0 THEN [q |-> 0, r |-> 0]
    ELSE LET prev == TimesMod(r, m - 1, d)
         IN  IF prev.r >= d - r THEN [q |-> prev.q + 1, r |-> prev.r - (d - r)]
             ELSE [q |-> prev.q, r |-> prev.r + r]
RECURSIVE ScaledFloor(_, _, _)
ScaledFloor(n, d, digits) ==
    IF digits = 0 THEN [q |-> n \div d, r |-> n % d]
    ELSE LET prev == ScaledFloor(n, d, digits - 1)
             next == TimesMod(prev.r, 10, d)
         IN  [q |-> prev.q * 10 + next.q, r |-> next.r]
RoundTo(v, digits) ==
    LET f == ScaledFloor(v[1], v[2], digits)
    IN  IF f.r > v[2] - f.r \/ (f.r = v[2] - f.r /\ f.q % 2 = 1) THEN f.q + 1
        ELSE f.q
TenThousandths == 10000
Hundredths == 100
Round4(v) == <<RoundTo(RNorm(v), 4), TenThousandths>>
Round2(v) == <<RoundTo(RNorm(v), 2), Hundredths>>
RMin(a, b) == IF RLe(a, b) THEN a ELSE b
RMax(a, b) == IF RLe(a, b) THEN b ELSE a
RSub(a, b) == RNorm(<<a[1] * b[2] - b[1] * a[2], a[2] * b[2]>>)

Nxt(i, n) == (i % n) + 1
\* cv2.contourArea, doubled (shoelace formula, absolute value).
RECURSIVE ShoelaceFrom(_, _)
ShoelaceFrom(c, i) ==
    IF i > Len(c) THEN 0
    ELSE LET a == c[i]
             b == c[Nxt(i, Len(c))]
         IN  a[1] * b[2] - b[1] * a[2] + ShoelaceFrom(c, i + 1)
PolyArea2(c) == Abs(ShoelaceFrom(c, 1))

\* cv2.arcLength(closed=True): the total length of the axis-parallel edges
\* and the total extent of the diagonal edges (each of length extent*sqrt 2).
RECURSIVE AxisLengthFrom(_, _)
AxisLengthFrom(c, i) ==
    IF i > Len(c) THEN 0
    ELSE LET dx == Abs(c[Nxt(i, Len(c))][1] - c[i][1])
             dy == Abs(c[Nxt(i, Len(c))][2] - c[i][2])
         IN  (IF dx = 0 \/ dy = 0 THEN dx + dy ELSE 0) + AxisLengthFrom(c, i + 1)
RECURSIVE DiagLengthFrom(_, _)
DiagLengthFrom(c, i) ==
    IF i > Len(c) THEN 0
    ELSE LET dx == Abs(c[Nxt(i, Len(c))][1] - c[i][1])
             dy == Abs(c[Nxt(i, Len(c))][2] - c[i][2])
         IN  (IF dx # 0 /\ dy # 0 THEN dx ELSE 0) + DiagLengthFrom(c, i + 1)
\* The perimeter as a rational, sqrt 2 taken as Sqrt2Num / Sqrt2Den.
ArcLength(c) ==
    <<Sqrt2Den * AxisLengthFrom(c, 1) + Sqrt2Num * DiagLengthFrom(c, 1), Sqrt2Den>>

\* cv2.boundingRect of a contour.
BoundingRectOf(c) ==
    BoundingRect({c[i] : i \in 1 .. Len(c)})

\* cv2.approxPolyDP(contour, epsilon, closed=True), Douglas-Peucker: epsilon
\* is a rational, a length is floor(16 * sqrt(len2)) / 16.
SqDist(a, b) == (a[1] - b[1]) * (a[1] - b[1]) + (a[2] - b[2]) * (a[2] - b[2])
Cross(a, b, p) == (p[2] - a[2]) * (b[1] - a[1]) - (p[1] - a[1]) * (b[2] - a[2])
\* len <= epsilon, and |cross| <= epsilon * len
LengthWithin(len2, epsilon) == epsilon[2] * ISqrt(256 * len2) <= 16 * epsilon[1]
DeviationWithin(cross, len2, epsilon) ==
    16 * epsilon[2] * Abs(cross) <= epsilon[1] * ISqrt(256 * len2)
At(i, k, n) == ((i - 1 + k) % n) + 1
\* The point farthest from c[i], the first such in contour order after i.
Farthest(c, i) ==
    LET n == Len(c)
        d(k) == SqDist(c[i], c[At(i, k, n)])
    IN  IF n = 1 \/ \A k \in 1 .. (n - 1) : d(k) = 0 THEN i
        ELSE At(i, CHOOSE k \in 1 .. (n - 1) :
                      \A m \in 1 .. (n - 1) :
                          d(m) <= d(k) /\ (m < k => d(m) < d(k)), n)
\* The indices kept on the run from s to e (e excluded).
RECURSIVE Simplify(_, _, _, _)
Simplify(c, s, e, epsilon) ==
    LET n == Len(c)
        steps == ((e - s) + n) % n
        dev(k) == Abs(Cross(c[s], c[e], c[At(s, k, n)]))
    IN  IF steps <= 1 \/ \A k \in 1 .. (steps - 1) : dev(k) = 0 THEN <<s>>
        ELSE LET k == CHOOSE j \in 1 .. (steps - 1) :
                          \A m \in 1 .. (steps - 1) :
                              dev(m) <= dev(j) /\ (m < j => dev(m) < dev(j))
             IN  IF DeviationWithin(dev(k), SqDist(c[s], c[e]), epsilon)
                 THEN <<s>>
                 ELSE Simplify(c, s, At(s, k, n), epsilon)
                      \o Simplify(c, At(s, k, n), e, epsilon)
ApproxPolyDP(c, epsilon) ==
    LET a == Farthest(c, Farthest(c, 1))
        b == Farthest(c, a)
        kept == IF LengthWithin(SqDist(c[a], c[b]), epsilon) THEN <<a>>
                ELSE Simplify(c, a, b, epsilon) \o Simplify(c, b, a, epsilon)
    IN  [i \in 1 .. Len(kept) |-> c[kept[i]]]

\* _calculate_acute_ratio: the share of vertices whose interior angle is
\* below 90 degrees, i.e. whose two edge vectors have a positive dot product.
AcuteAt(pts, i) ==
    LET n == Len(pts)
        p1 == pts[At(i, n - 1, n)]
        p2 == pts[i]
        p3 == pts[At(i, 1, n)]
        dot == (p1[1] - p2[1]) * (p3[1] - p2[1]) + (p1[2] - p2[2]) * (p3[2] - p2[2])
    IN  p1 # p2 /\ p3 # p2 /\ dot > 0
CalculateAcuteRatio(pts) ==
    IF Len(pts) < 3 THEN RInt(0)
    ELSE <<Cardinality({i \in 1 .. Len(pts) : AcuteAt(pts, i)}), Len(pts)>>

\* _calculate_complexity: (score, outline_length_score,
\* direction_change_score).
Clamp01UpperOnly(v) == RMin(v, RInt(1))
\* min(max(v, 0), 1)
Clamp01(v) == RMin(RMax(v, RInt(0)), RInt(1))
CalculateComplexityOver16(vertex_count, perimeter, acute_ratio, contour) ==
    LET box == BoundingRectOf(contour)
        bbox_perimeter == IF box.bw + box.bh > 0 THEN 2 * (box.bw + box.bh) ELSE 1
        outline_ratio == RNorm(<<perimeter[1], perimeter[2] * bbox_perimeter>>)
        outline_length_score == Clamp01(RSub(outline_ratio, RInt(1)))
        vertex_norm == Clamp01(RNorm(<<vertex_count - 4, 16>>))
        acute_norm == RMin(acute_ratio, RInt(1))
        direction_change_score ==
            RNorm(RAdd(RMul(vertex_norm, <<3, 5>>), RMul(acute_norm, <<2, 5>>)))
        score == RNorm(RAdd(RHalf(outline_length_score),
                            RHalf(direction_change_score)))
    IN  [score |-> Clamp01(score),
         outline_length_score |-> outline_length_score,
         direction_change_score |-> direction_change_score]

CalculateComplexity(vertex_count, perimeter, acute_ratio, contour) ==
    LET box == BoundingRectOf(contour)
        bbox_perimeter == IF box.bw + box.bh > 0 THEN 2 * (box.bw + box.bh) ELSE 1
        outline_ratio == RNorm(<<perimeter[1], perimeter[2] * bbox_perimeter>>)
        outline_length_score == Clamp01(RSub(outline_ratio, RInt(1)))
        vertex_norm == Clamp01(RNorm(<<vertex_count - 4, 32>>))
        acute_norm == RMin(acute_ratio, RInt(1))
        direction_change_score ==
            RNorm(RAdd(RMul(vertex_norm, <<3, 5>>), RMul(acute_norm, <<2, 5>>)))
        score == RNorm(RAdd(RHalf(outline_length_score),
                            RHalf(direction_change_score)))
    IN  [score |-> Clamp01(score),
         outline_length_score |-> outline_length_score,
         direction_change_score |-> direction_change_score]

\* max(contours, key=cv2.contourArea): the first contour of largest area.
MainContour(contours) ==
    contours[CHOOSE i \in 1 .. Len(contours) :
                \A j \in 1 .. Len(contours) :
                    /\ PolyArea2(contours[j]) <= PolyArea2(contours[i])
                    /\ (j < i => PolyArea2(contours[j]) < PolyArea2(contours[i]))]

MinAreaPx == 100
FillThreshold == <<95, 100>>
NoMetrics == [ok |-> FALSE]
\* math.pi / 4
QuarterPi == <<PiNum, 4 * PiDen>>
\* 4 * pi * area / perimeter^2, capped at 1
Circularity(area2, perimeter) ==
    IF RPos(perimeter)
    THEN RMin(RNorm(<<2 * PiNum * area2 * perimeter[2] * perimeter[2],
                      PiDen * perimeter[1] * perimeter[1]>>), RInt(1))
    ELSE RInt(0)
FillRatio(area2, box) ==
    IF box.bw * box.bh > 0 THEN RNorm(<<area2, 2 * box.bw * box.bh>>) ELSE RInt(0)

\* The metrics as measured, with the complexity computed from them.
MeasuredMetrics(contours) ==
    LET main_contour == MainContour(contours)
        area2 == PolyArea2(main_contour)
        perimeter == ArcLength(main_contour)
        box == BoundingRectOf(main_contour)
        approx == ApproxPolyDP(main_contour, <<perimeter[1], 100 * perimeter[2]>>)
        fill_ratio == FillRatio(area2, box)
        m == CalculateComplexity(Len(approx), perimeter,
                                 CalculateAcuteRatio(approx), main_contour)
    IN  IF area2 < 2 * MinAreaPx THEN NoMetrics
        ELSE [ok |-> TRUE, contour_area2 |-> area2,
              contour_perimeter_px |-> perimeter,
              bounding_box_px |-> <<box.bw, box.bh>>,
              vertex_count |-> Len(approx),
              circularity |-> Round4(Circularity(area2, perimeter)),
              fill_ratio |-> Round4(fill_ratio),
              complexity_score |-> Round4(m.score),
              outline_length_score |-> Round4(m.outline_length_score),
              direction_change_score |-> Round4(m.direction_change_score)]

AnalyzeContoursNoOverride(contours) == MeasuredMetrics(contours)

\* _analyze_contours: ShapeMetrics of the largest contour, or None.
AnalyzeContours(contours) ==
    LET main_contour == MainContour(contours)
        area2 == PolyArea2(main_contour)
        perimeter == ArcLength(main_contour)
        box == BoundingRectOf(main_contour)
        approx == ApproxPolyDP(main_contour, <<perimeter[1], 100 * perimeter[2]>>)
        fill_ratio == FillRatio(area2, box)
        override == ~RLe(fill_ratio, FillThreshold)
        m == CalculateComplexity(Len(approx), perimeter,
                                 CalculateAcuteRatio(approx), main_contour)
    IN  IF area2 < 2 * MinAreaPx THEN NoMetrics
        ELSE [ok |-> TRUE, contour_area2 |-> area2,
              contour_perimeter_px |-> perimeter,
              bounding_box_px |-> <<box.bw, box.bh>>,
              vertex_count |-> IF override THEN 4 ELSE Len(approx),
              circularity |-> Round4(IF override THEN QuarterPi
                                     ELSE Circularity(area2, perimeter)),
              fill_ratio |-> Round4(fill_ratio),
              complexity_score |-> Round4(IF override THEN RInt(0) ELSE m.score),
              outline_length_score |->
                  Round4(IF override THEN RInt(0) ELSE m.outline_length_score),
              direction_change_score |->
                  Round4(IF override THEN RInt(0) ELSE m.direction_change_score)]

\* convert_to_mm: the mm fields it sets on the metrics.
ConvertScale(box_px, target_width_mm, target_height_mm) ==
    LET scale_x == IF box_px[1] > 0
                   THEN <<target_width_mm[1], target_width_mm[2] * box_px[1]>>
                   ELSE RInt(1)
        scale_y == IF box_px[2] > 0
                   THEN <<target_height_mm[1], target_height_mm[2] * box_px[2]>>
                   ELSE RInt(1)
    IN  RNorm(RHalf(RAdd(scale_x, scale_y)))
ConvertToMmLinearArea(metrics, target_width_mm, target_height_mm) ==
    LET mm_per_px == ConvertScale(metrics.bounding_box_px, target_width_mm,
                              target_height_mm)
    IN  [area_mm2 |-> Round2(RMul(<<metrics.contour_area2, 2>>, mm_per_px)),
         perimeter_mm |-> Round2(RMul(RNorm(metrics.contour_perimeter_px), mm_per_px)),
         bbox_width_mm |-> Round2(target_width_mm),
         bbox_height_mm |-> Round2(target_height_mm)]
ConvertToMm(metrics, target_width_mm, target_height_mm) ==
    LET mm_per_px == ConvertScale(metrics.bounding_box_px, target_width_mm,
                              target_height_mm)
    IN  [area_mm2 |->
             Round2(RMul(RNorm(RMul(<<metrics.contour_area2, 2>>, mm_per_px)), mm_per_px)),
         perimeter_mm |-> Round2(RMul(RNorm(metrics.contour_perimeter_px), mm_per_px)),
         bbox_width_mm |-> Round2(target_width_mm),
         bbox_height_mm |-> Round2(target_height_mm)]

\* cv2.findContours(mask, RETR_EXTERNAL, CHAIN_APPROX_SIMPLE) on the masks
\* drawn here: each blob of the mask is a filled figure with its top-left
\* pixel at <<ox, 0>>, and its contour runs through the centres of its border
\* pixels, cutting each inner corner by one diagonal step.
\*   rect:     w x h pixels
\*   triangle: the pixels x <= y of a w x w square
\*   notch:    w x h pixels less the k x k pixels of the top-right corner
\*   slot:     w x h pixels less the k columns from column k, rows 0 .. h-k-1
Shift(ox, pts) == [i \in 1 .. Len(pts) |-> <<pts[i][1] + ox, pts[i][2]>>]
OutlineOf(b) ==
    Shift(b.ox,
      CASE b.kind = "rect" ->
             <<<<0, 0>>, <<0, b.h - 1>>, <<b.w - 1, b.h - 1>>, <<b.w - 1, 0>>>>
        [] b.kind = "triangle" ->
             <<<<0, 0>>, <<0, b.w - 1>>, <<b.w - 1, b.w - 1>>>>
        [] b.kind = "notch" ->
             IF b.k = 1
             THEN <<<<0, 0>>, <<0, b.h - 1>>, <<b.w - 1, b.h - 1>>,
                    <<b.w - 1, 1>>, <<b.w - 2, 0>>>>
             ELSE <<<<0, 0>>, <<0, b.h - 1>>, <<b.w - 1, b.h - 1>>,
                    <<b.w - 1, b.k>>, <<b.w - b.k, b.k>>,
                    <<b.w - 1 - b.k, b.k - 1>>, <<b.w - 1 - b.k, 0>>>>
        [] b.kind = "slot" ->
             <<<<0, 0>>, <<0, b.h - 1>>, <<b.w - 1, b.h - 1>>, <<b.w - 1, 0>>,
               <<2 * b.k, 0>>, <<2 * b.k, b.h - b.k - 1>>,
               <<2 * b.k - 1, b.h - b.k>>, <<b.k, b.h - b.k>>,
               <<b.k - 1, b.h - b.k - 1>>, <<b.k - 1, 0>>>>)
FindContoursOf(blobs) == [i \in 1 .. Len(blobs) |-> OutlineOf(blobs[i])]

\* analyze_from_mask
AnalyzeFromMask(blobs) ==
    IF Len(blobs) = 0 THEN NoMetrics ELSE AnalyzeContours(FindContoursOf(blobs))

ShapeMax == 40
RectSides == {3, 10, 11, ShapeMax - 1, ShapeMax, ShapeMax + 11}
Blobs ==
    [kind : {"rect"}, w : RectSides, h : RectSides, k : {0}, ox : {0}]
    \cup [kind : {"rect"}, w : {2}, h : {(5 * ShapeMax) \div 2 + 1}, k : {0},
          ox : {0}]
    \cup [kind : {"triangle"}, w : {ShapeMax - 24, ShapeMax}, h : {0}, k : {0},
          ox : {0}]
    \cup [kind : {"notch"}, w : {ShapeMax - 20, ShapeMax + 11},
          h : {ShapeMax - 20, ShapeMax + 11}, k : {1, 3, 5}, ox : {0}]
    \cup [kind : {"slot"}, w : {ShapeMax - 19}, h : {ShapeMax - 20, ShapeMax},
          k : {3, 5}, ox : {0}]
\* A second, smaller or larger, blob to the right of the first.
Companions ==
    [kind : {"rect"}, w : {11}, h : {11, ShapeMax}, k : {0}, ox : {2 * ShapeMax}]
BlobLists ==
    {<<>>} \cup {<<b>> : b \in Blobs}
    \cup {<<b, c>> : b \in Blobs, c \in Companions}
    \cup {<<c, b>> : b \in Blobs, c \in Companions}
TargetWidthsMm(bw) == {RInt(30), RInt(bw), RInt(2 * bw)}
TargetHeightsMm(bh) == {RInt(bh), RInt(2 * bh), <<bh, 2>>}

PipeUnused ==
    /\ pc = "unused"
    /\ heap = [r \in Refs |-> {}]
    /\ given = {}
    /\ size_mm = <<0, 0>>
    /\ config = [print_offset_mm |-> RInt(0), cutting_offset_mm |-> RInt(0)]
    /\ scale = RInt(1)
    /\ print_offset_px = RInt(0)
    /\ cutting_offset_px = RInt(0)
    /\ print_stage = NoStage
    /\ cutting_stage = NoStage
    /\ result = NoResult
    /\ hole_px = NoHole

InitShape ==
    /\ PipeUnused
    /\ WebUnused
    /\ CacheUnused
    /\ ProcUnused
    /\ fn = "none"
    /\ fn_in \in [blobs : BlobLists]
    /\ fn_args = <<>>
    /\ fn_out = <<>>

ApplyAnalyze ==
    /\ fn = "none"
    /\ fn' = "analyze"
    /\ fn_out' = AnalyzeFromMask(fn_in.blobs)
    /\ UNCHANGED <<fn_in, fn_args, pipeVars, webVars, cacheVars, procVars>>

\* convert_to_mm on the metrics just measured, to a target width of 30 mm or
\* 1 or 2 mm per pixel and a target height of 1/2, 1 or 2 mm per pixel.
ApplyConvert ==
    /\ fn = "analyze"
    /\ fn_out.ok
    /\ \E tw \in TargetWidthsMm(fn_out.bounding_box_px[1]),
          th \in TargetHeightsMm(fn_out.bounding_box_px[2]) :
          /\ fn_args' = [metrics |-> fn_out, target_width_mm |-> tw,
                         target_height_mm |-> th]
          /\ fn_out' = ConvertToMm(fn_out, tw, th)
    /\ fn' = "convert"
    /\ UNCHANGED <<fn_in, pipeVars, webVars, cacheVars, procVars>>

NextShape == ApplyAnalyze \/ ApplyConvert

SpecShape == InitShape /\ [][NextShape]_vars

\* ----------------------------------------------------------- the endpoints
\* One request is followed from its arrival to its response. What PIL,
\* OpenCV and rembg return is drawn from the outcomes their callers
\* distinguish; a shape analysis is carried as the kind of metrics it is
\* ("contour": measured on a contour, "rectangle": analyze_image's
\* whole-image fallback, "none": no metrics).

AllowedExts == {".jpg", ".jpeg", ".png", ".gif", ".bmp", ".ai", ".psd"}
RasterExts == {".jpg", ".jpeg", ".png", ".bmp"}
OpaqueExts == {".jpg", ".jpeg", ".bmp"}
UploadedExts == {".jpg", ".png", ".gif", ".exe"}

UploadRequests ==
    [endpoint : {"upload_image"}, has_name : BOOLEAN, ext : UploadedExts,
     target_dimension : {"auto", "width"}, target_size_ok : BOOLEAN,
     product_type : {"objet", "keyring"}, hole_type : {"ring", "internal"}]
UpdateRequests ==
    [endpoint : {"update_cutting_lines"},
     product_type : {"objet", "keyring"}, hole_type : {"ring", "internal"}]
ShapeRequests ==
    [endpoint : {"calculate_shape"}, polygon : BOOLEAN,
     product_type : {"objet", "keyring"}]

\* The files an earlier upload of the same name may have left behind.
EarlierUploads == {{}, {"temp"}, {"temp", "mask"}}

\* The locals of a handler that has just been entered.
Entered(at) ==
    [pc |-> at, is_transparent |-> FALSE, rembg_mask |-> "none",
     rembg_used |-> FALSE, background |-> "uncalled",
     analysis |-> "uncalled", shape_analysis |-> "none",
     cutting |-> "uncalled", cutting_fields |-> FALSE, size_added |-> FALSE,
     preview |-> "uncalled", cutting_preview_path |-> FALSE,
     preview_path |-> FALSE, outline_path |-> FALSE, drilling_fee |-> 0]

EntryOf(req) ==
    CASE req.endpoint = "upload_image" -> "validate"
      [] req.endpoint = "update_cutting_lines" -> "load"
      [] req.endpoint = "calculate_shape" -> "calculate"

\* The card both except clauses of image.py return, and the response
\* FastAPI makes of an HTTPException nobody caught.
ErrorCard ==
    [kind |-> "error_card", shape_analysis |-> "none",
     cutting_fields |-> FALSE, size_added |-> FALSE,
     cutting_preview_path |-> FALSE, preview_path |-> FALSE,
     outline_path |-> FALSE, drilling_fee |-> 0]
Http400 == [ErrorCard EXCEPT !.kind = "http_400"]

\* An exception leaves the try block with the locals as they are.
Raises(h) ==
    /\ handler' = [h EXCEPT !.pc = "done"]
    /\ response' = ErrorCard

\* The rendered template: the context the handler passes to it.
PageOf(h, template) ==
    [kind |-> template, shape_analysis |-> h.shape_analysis,
     cutting_fields |-> h.cutting_fields, size_added |-> h.size_added,
     cutting_preview_path |-> h.cutting_preview_path,
     preview_path |-> h.preview_path, outline_path |-> h.outline_path,
     drilling_fee |-> h.drilling_fee]

\* get_drilling_fee() for a keyring, else 0: the fee a handler passes on.
DrillingFee == 100
DrillingFeeFor(req) == IF req.product_type = "keyring" THEN DrillingFee ELSE 0

\* upload_image: the alpha channel of a transparent PNG as a mask.
AfterAlpha(h, alpha) ==
    CASE alpha = "valid" -> [h EXCEPT !.rembg_mask = "alpha"]
      [] alpha = "opaque" -> [h EXCEPT !.is_transparent = FALSE]
      [] OTHER -> h

NeedRembg(ext, h, alpha) ==
    \/ alpha = "opaque"
    \/ ext = ".png" /\ ~h.is_transparent
    \/ ext \in OpaqueExts /\ ~h.is_transparent

\* upload_image: what remove_background gave. found: the mask has a contour.
AfterBackground(h, bg, found) ==
    IF bg = "mask"
    THEN [h EXCEPT !.background = bg, !.rembg_mask = "rembg",
                   !.rembg_used = TRUE,
                   !.is_transparent = h.is_transparent \/ found]
    ELSE [h EXCEPT !.background = bg]

\* The rest of the mask branch once the cutting lines are settled.
WithPreviewPath(h, req) ==
    [h EXCEPT !.preview_path = req.endpoint = "upload_image" /\ h.rembg_used,
              !.pc = "respond"]

\* The caller of generate_cutting_lines, on its result.
AfterCuttingDropsAnalysis(h, req, cutting_result) ==
    IF cutting_result = "none"
    THEN WithPreviewPath([h EXCEPT !.cutting = "none",
                                   !.shape_analysis = "none"], req)
    ELSE [h EXCEPT !.cutting = "lines", !.cutting_fields = TRUE,
                   !.size_added = /\ req.endpoint = "upload_image"
                                  /\ req.product_type = "keyring"
                                  /\ req.hole_type = "ring",
                   !.pc = "preview"]

AfterCutting(h, req, cutting_result) ==
    IF cutting_result = "none"
    THEN WithPreviewPath([h EXCEPT !.cutting = "none"], req)
    ELSE [h EXCEPT !.cutting = "lines", !.cutting_fields = TRUE,
                   !.size_added = /\ req.endpoint = "upload_image"
                                  /\ req.product_type = "keyring"
                                  /\ req.hole_type = "ring",
                   !.pc = "preview"]

\* The caller of create_cutting_preview, on a returned value.
AfterPreview(h, req, drawn) ==
    WithPreviewPath([h EXCEPT !.preview = IF drawn THEN "true" ELSE "false",
                              !.cutting_preview_path = drawn], req)

InitWeb ==
    /\ PipeUnused
    /\ FnUnused
    /\ CacheUnused
    /\ ProcUnused
    /\ request \in UploadRequests \cup UpdateRequests \cup ShapeRequests
    /\ handler = Entered(EntryOf(request))
    /\ disk \in IF request.endpoint = "upload_image"
                THEN {{}} ELSE EarlierUploads
    /\ response = NoResponse

\* upload_image, the name and extension checks and the temporary copy.
UploadValidate ==
    /\ handler.pc = "validate"
    /\ IF ~request.has_name \/ request.ext \notin AllowedExts
       THEN Raises(handler) /\ UNCHANGED disk
       ELSE /\ disk' = disk \cup {"temp"}
            /\ handler' = [handler EXCEPT !.pc = "size"]
            /\ UNCHANGED response
    /\ UNCHANGED <<request, pipeVars, fnVars, cacheVars, procVars>>

\* upload_image, the image size by PIL or OpenCV.
UploadReadSize ==
    /\ handler.pc = "size"
    /\ \E read \in {"opaque", "transparent", "unreadable"} :
          /\ read = "transparent" => request.ext \notin OpaqueExts
          /\ IF read = "unreadable"
             THEN Raises(handler)
             ELSE /\ handler' = [handler EXCEPT
                                   !.is_transparent = read = "transparent",
                                   !.pc = "mask"]
                  /\ UNCHANGED response
    /\ UNCHANGED <<request, disk, pipeVars, fnVars, cacheVars, procVars>>

\* upload_image, the mask: the alpha channel, else remove_background, whose
\* import of rembg stands outside its try block.
UploadMask ==
    /\ handler.pc = "mask"
    /\ \E alpha \in {"untried", "unreadable", "valid", "opaque"},
          bg \in {"uncalled", "import_error", "none", "mask"},
          found \in BOOLEAN :
          LET tried == request.ext = ".png" /\ handler.is_transparent
              h1 == AfterAlpha(handler, alpha)
              called == /\ NeedRembg(request.ext, h1, alpha)
                        /\ h1.rembg_mask = "none"
              h2 == AfterBackground(h1, bg, found)
          IN  /\ (alpha = "untried") <=> ~tried
              /\ (bg = "uncalled") <=> ~called
              /\ found => bg = "mask"
              /\ IF bg = "import_error"
                 THEN Raises(h2) /\ UNCHANGED disk
                 ELSE /\ handler' = [h2 EXCEPT !.pc = "ratio"]
                      /\ disk' = disk
                            \cup (IF alpha = "valid" THEN {"mask"} ELSE {})
                            \cup (IF bg = "mask"
                                  THEN {"mask", "preview"} ELSE {})
                      /\ UNCHANGED response
    /\ UNCHANGED <<request, pipeVars, fnVars, cacheVars, procVars>>

\* upload_image, the target size.
UploadRatio ==
    /\ handler.pc = "ratio"
    /\ IF request.target_dimension # "auto" /\ ~request.target_size_ok
       THEN Raises(handler)
       ELSE handler' = [handler EXCEPT !.pc = "analyze"] /\ UNCHANGED response
    /\ UNCHANGED <<request, disk, pipeVars, fnVars, cacheVars, procVars>>

\* upload_image, the shape analysis: analyze_from_mask on the mask, priced
\* with the drilling fee, else analyze_image on the file with its previews,
\* priced with _build_shape_analysis's default fee of 0, else nothing.
UploadAnalyze ==
    /\ handler.pc = "analyze"
    /\ \E metrics \in {"none", "contour", "rectangle"},
          bg_removed \in BOOLEAN, outlined \in BOOLEAN :
          IF request.ext \in RasterExts /\ handler.rembg_mask # "none"
          THEN /\ metrics # "rectangle" /\ ~bg_removed /\ ~outlined
               /\ handler' = [handler EXCEPT
                                !.analysis = metrics,
                                !.shape_analysis = metrics,
                                !.drilling_fee =
                                    IF metrics = "none" THEN 0
                                    ELSE DrillingFeeFor(request),
                                !.pc = IF metrics = "none"
                                       THEN "respond" ELSE "cutting"]
               /\ UNCHANGED disk
          ELSE IF request.ext \in RasterExts
          THEN /\ bg_removed => /\ metrics = "contour"
                                /\ ~handler.is_transparent
                                /\ request.ext \in OpaqueExts
               /\ outlined => metrics # "none"
               /\ handler' = [handler EXCEPT
                                !.analysis = metrics,
                                !.shape_analysis = metrics,
                                !.is_transparent = @ \/ bg_removed,
                                !.preview_path = bg_removed,
                                !.outline_path = outlined,
                                !.pc = "respond"]
               /\ disk' = disk
                     \cup (IF bg_removed THEN {"preview"} ELSE {})
                     \cup (IF outlined THEN {"outline"} ELSE {})
          ELSE /\ metrics = "none" /\ ~bg_removed /\ ~outlined
               /\ handler' = [handler EXCEPT !.pc = "respond"]
               /\ UNCHANGED disk
    /\ UNCHANGED <<request, response, pipeVars, fnVars, cacheVars, procVars>>

\* update_cutting_lines, up to its shape analysis.
UpdateLoad ==
    /\ handler.pc = "load"
    /\ \E metrics \in {"none", "contour"} :
          IF "temp" \notin disk \/ "mask" \notin disk
          THEN metrics = "none" /\ Raises(handler)
          ELSE IF metrics = "none"
          THEN Raises([handler EXCEPT !.rembg_mask = "cached",
                                      !.analysis = "none"])
          ELSE /\ handler' = [handler EXCEPT !.rembg_mask = "cached",
                                             !.analysis = metrics,
                                             !.shape_analysis = metrics,
                                             !.drilling_fee =
                                                 DrillingFeeFor(request),
                                             !.pc = "cutting"]
               /\ UNCHANGED response
    /\ UNCHANGED <<request, disk, pipeVars, fnVars, cacheVars, procVars>>

\* Both endpoints, generate_cutting_lines and the cutting metrics.
GenerateLines ==
    /\ handler.pc = "cutting"
    /\ \E cutting_result \in {"none", "lines"} :
          handler' = AfterCutting(handler, request, cutting_result)
    /\ UNCHANGED <<request, disk, response, pipeVars, fnVars, cacheVars, procVars>>

\* Both endpoints, create_cutting_preview, called outside any try of its own.
DrawPreview ==
    /\ handler.pc = "preview"
    /\ \E outcome \in {"true", "false", "raise"} :
          IF outcome = "raise"
          THEN Raises([handler EXCEPT !.preview = "raise"]) /\ UNCHANGED disk
          ELSE /\ handler' = AfterPreview(handler, request, outcome = "true")
               /\ disk' = disk \cup (IF outcome = "true"
                                     THEN {"cutting"} ELSE {})
               /\ UNCHANGED response
    /\ UNCHANGED <<request, pipeVars, fnVars, cacheVars, procVars>>

\* Both endpoints, the template response.
Respond ==
    /\ handler.pc = "respond"
    /\ response' = PageOf(handler, IF request.endpoint = "upload_image"
                                   THEN "image_ratio" ELSE "cutting_preview")
    /\ handler' = [handler EXCEPT !.pc = "done"]
    /\ UNCHANGED <<request, disk, pipeVars, fnVars, cacheVars, procVars>>

\* calculate_shape, whole: it catches ValueError only.
CalculateShape ==
    /\ handler.pc = "calculate"
    /\ \E metrics \in {"none", "contour", "rectangle"}, parsed \in BOOLEAN :
          LET from_file == ~request.polygon /\ "mask" \notin disk
              h == [handler EXCEPT !.analysis = metrics,
                                   !.shape_analysis = metrics,
                                   !.drilling_fee =
                                       IF metrics = "none" THEN 0
                                       ELSE DrillingFeeFor(request),
                                   !.pc = "done"]
          IN  IF "temp" \notin disk
              THEN /\ metrics = "none" /\ parsed
                   /\ handler' = [handler EXCEPT !.pc = "done"]
                   /\ response' = Http400
              ELSE IF ~parsed
              THEN /\ request.polygon /\ metrics = "none"
                   /\ Raises(handler)
              ELSE /\ metrics = "rectangle" => from_file
                   /\ handler' = h
                   /\ response' = IF metrics = "none" THEN Http400
                                  ELSE PageOf(h, "shape_result")
    /\ UNCHANGED <<request, disk, pipeVars, fnVars, cacheVars, procVars>>

NextWeb ==
    \/ UploadValidate
    \/ UploadReadSize
    \/ UploadMask
    \/ UploadRatio
    \/ UploadAnalyze
    \/ UpdateLoad
    \/ GenerateLines
    \/ DrawPreview
    \/ Respond
    \/ CalculateShape

SpecWeb == InitWeb /\ [][NextWeb]_vars

\* ------------------------------------------------------------ the mask cache
\* save_mask encodes the mask in memory and hands the buffer to
\* ndarray.tofile(path), which opens the path for writing (truncating it),
\* writes the buffer from its own file offset and closes it. There is no
\* temporary file, no rename and no lock. Two workers that serve uploads of
\* one file name each run save_mask on the same path; the buffer of a large
\* mask reaches the file in several writes.

MaxChunks == 3

Savers == {1, 2}

\* The encoded buffer of saver w, len chunks long.
Encoded(w, len) == [k \in 1..len |-> <<w, k>>]

\* The file after a write of chunk c at position at (1-based).
WriteAt(file, at, c) ==
    [k \in 1..Max(Len(file), at) |->
        IF k = at THEN c
        ELSE IF k <= Len(file) THEN file[k] ELSE <<0, k>>]

Closed(w) == writers[w].pc = "closed"

InitCache ==
    /\ PipeUnused
    /\ FnUnused
    /\ WebUnused
    /\ ProcUnused
    /\ mask_file = <<>>
    /\ writers \in [Savers -> [pc : {"encoded"}, len : 1..MaxChunks,
                               offset : {0}, rank : {0}]]

\* open(path, "wb")
OpenFile(w) ==
    /\ writers[w].pc = "encoded"
    /\ mask_file' = <<>>
    /\ writers' = [writers EXCEPT ![w].pc = "open"]
    /\ UNCHANGED <<pipeVars, fnVars, webVars, procVars>>

\* one write of the buffer's next chunk
WriteChunk(w) ==
    /\ writers[w].pc = "open"
    /\ writers[w].offset < writers[w].len
    /\ mask_file' = WriteAt(mask_file, writers[w].offset + 1,
                            <<w, writers[w].offset + 1>>)
    /\ writers' = [writers EXCEPT ![w].offset = @ + 1]
    /\ UNCHANGED <<pipeVars, fnVars, webVars, procVars>>

\* close, and save_mask returns True; rank: the order of returning
CloseFile(w) ==
    /\ writers[w].pc = "open"
    /\ writers[w].offset = writers[w].len
    /\ writers' = [writers EXCEPT
                     ![w].pc = "closed",
                     ![w].rank = Cardinality({v \in Savers : Closed(v)}) + 1]
    /\ UNCHANGED <<mask_file, pipeVars, fnVars, webVars, procVars>>

NextCache ==
    \/ \E w \in Savers : OpenFile(w)
    \/ \E w \in Savers : WriteChunk(w)
    \/ \E w \in Savers : CloseFile(w)

SpecCache == InitCache /\ [][NextCache]_vars

\* ------------------------------------- generate_offset_contour on its own
\* The offsets in px the function is applied to: none, negative, fractional,
\* whole and larger than the image.
OffsetsPx ==
    {RInt(-1), RInt(0), <<1, 2>>, RInt(1), <<3, 2>>, RInt(2), <<5, 2>>,
     RInt(7)}

\* (None, None)
NoContour ==
    [found |-> FALSE, contour |-> {}, mask |-> {}, alias |-> FALSE,
     kernel_size |-> 0, iterations |-> 0]

InitOffset ==
    /\ PipeUnused
    /\ WebUnused
    /\ CacheUnused
    /\ ProcUnused
    /\ fn = "none"
    /\ fn_in \in [mask : Masks, offset_px : OffsetsPx]
    /\ fn_args = <<>>
    /\ fn_out = <<>>

\* One call of generate_offset_contour(mask, offset_px); kernel_size and
\* iterations are its locals on the offsetting path.
ApplyOffset ==
    /\ fn = "none"
    /\ fn' = "offset"
    /\ LET offset_px == fn_in.offset_px
           rs == GenerateOffsetContour(fn_in.mask, offset_px)
           kernel_size == IF RPos(offset_px) THEN KernelSize(offset_px) ELSE 0
           iterations == IF RPos(offset_px) THEN Iterations(offset_px) ELSE 0
       IN  IF rs = {}
           THEN fn_out' = [NoContour EXCEPT !.kernel_size = kernel_size,
                                            !.iterations = iterations]
           ELSE \E r \in rs :
                   fn_out' = [found |-> TRUE, contour |-> r.contour,
                              mask |-> r.mask, alias |-> r.alias,
                              kernel_size |-> kernel_size,
                              iterations |-> iterations]
    /\ UNCHANGED <<fn_in, fn_args, pipeVars, webVars, cacheVars, procVars>>

NextOffset == ApplyOffset

SpecOffset == InitOffset /\ [][NextOffset]_vars

\* ------------------------------------------------------------ _create_mask
\* An image is carried by what the three strategies read from it: its shape,
\* the share of the corner samples that have the dominant quantised colour,
\* the foreground share of the colour-distance mask after opening and
\* closing, the share Otsu's inverse threshold leaves white and the share of
\* alpha above 10.  A mask is carried by the strategy that made it and its
\* foreground share.  Shares are exact rationals.
SampleSize == 10
MaskCalls == 2

Images ==
    [channels : {1, 3, 4}, h : {0, 19, 20}, w : {10, 20},
     dominant : {<<49, 100>>, <<50, 100>>, <<100, 100>>},
     corner_fg : {<<9, 1000>>, <<10, 1000>>, <<950, 1000>>, <<951, 1000>>},
     otsu_white : {<<50, 100>>, <<51, 100>>},
     alpha_fg : {<<40, 100>>}]

NoMask == [by |-> "none", fg |-> RInt(0)]

RLt(a, b) == ~RLe(b, a)

CreateMaskByCornerSampling(img) ==
    IF img.h < SampleSize * 2 \/ img.w < SampleSize * 2 THEN NoMask
    ELSE IF RLt(img.dominant, <<1, 2>>) THEN NoMask
    ELSE IF RLt(img.corner_fg, <<1, 100>>) \/ RLt(<<95, 100>>, img.corner_fg)
    THEN NoMask
    ELSE [by |-> "corner", fg |-> img.corner_fg]

\* Otsu's inverse threshold, inverted again when more than half is white.
OtsuMask(img) ==
    [by |-> "otsu",
     fg |-> IF RLt(<<1, 2>>, img.otsu_white)
            THEN <<img.otsu_white[2] - img.otsu_white[1], img.otsu_white[2]>>
            ELSE img.otsu_white]

CreateMaskOtsuFirst(img) ==
    IF img.h * img.w = 0 THEN NoMask
    ELSE IF img.channels = 4 THEN [by |-> "alpha", fg |-> img.alpha_fg]
    ELSE OtsuMask(img)

CreateMask(img) ==
    IF img.h * img.w = 0 THEN NoMask
    ELSE IF img.channels = 4 THEN [by |-> "alpha", fg |-> img.alpha_fg]
    ELSE IF img.channels = 3 /\ CreateMaskByCornerSampling(img) # NoMask
    THEN CreateMaskByCornerSampling(img)
    ELSE OtsuMask(img)

InitMask ==
    /\ PipeUnused
    /\ WebUnused
    /\ CacheUnused
    /\ ProcUnused
    /\ fn = "none"
    /\ fn_in \in Images
    /\ fn_args = <<>>
    /\ fn_out = <<>>

\* One more call of _create_mask on the same image; fn_out lists what the
\* calls returned.
ApplyCreateMask ==
    /\ fn \in {"none", "create_mask"}
    /\ Len(fn_out) < MaskCalls
    /\ fn' = "create_mask"
    /\ fn_out' = Append(fn_out, CreateMask(fn_in))
    /\ UNCHANGED <<fn_in, fn_args, pipeVars, webVars, cacheVars, procVars>>

NextMask == ApplyCreateMask

SpecMask == InitMask /\ [][NextMask]_vars

\* ----------------------------------------- _calculate_complexity on its own
\* The function is applied to two argument lists lo and hi over one bounding
\* box, lo at most hi in perimeter, vertex count and acute ratio.
BoxContour(bw, bh) ==
    <<<<0, 0>>, <<bw - 1, 0>>, <<bw - 1, bh - 1>>, <<0, bh - 1>>>>
ComplexityBoxes == {<<10, 10>>, <<5, 20>>}
ComplexityArgs(bw, bh) ==
    [vertex_count : {2, 4, 20, 36, 40},
     perimeter : {RInt(bw + bh), RInt(2 * (bw + bh)), RInt(3 * (bw + bh)),
                  RInt(4 * (bw + bh)), RInt(5 * (bw + bh))},
     acute_ratio : {RInt(0), <<1, 4>>, RInt(1)}]
ArgsLe(a, b) ==
    /\ a.vertex_count <= b.vertex_count
    /\ RLe(a.perimeter, b.perimeter)
    /\ RLe(a.acute_ratio, b.acute_ratio)

InitComplexity ==
    /\ PipeUnused
    /\ WebUnused
    /\ CacheUnused
    /\ ProcUnused
    /\ fn = "none"
    /\ \E box \in ComplexityBoxes :
          \E lo \in ComplexityArgs(box[1], box[2]),
             hi \in ComplexityArgs(box[1], box[2]) :
             /\ ArgsLe(lo, hi)
             /\ fn_in = [bw |-> box[1], bh |-> box[2]]
             /\ fn_args = [lo |-> lo, hi |-> hi]
    /\ fn_out = <<>>

ComplexityOf(a, contour) ==
    CalculateComplexity(a.vertex_count, a.perimeter, a.acute_ratio, contour)

ApplyComplexity ==
    /\ fn = "none"
    /\ fn' = "complexity"
    /\ LET contour == BoxContour(fn_in.bw, fn_in.bh)
       IN  fn_out' = [lo |-> ComplexityOf(fn_args.lo, contour),
                      hi |-> ComplexityOf(fn_args.hi, contour)]
    /\ UNCHANGED <<fn_in, fn_args, pipeVars, webVars, cacheVars, procVars>>

NextComplexity == ApplyComplexity

SpecComplexity == InitComplexity /\ [][NextComplexity]_vars

\* ------------------------------------------------------------- _get_session
\* The calls of _get_session in one process: caller 1 is preload_model, run by
\* lifespan before any request is served; the others are remove_background
\* calls.  _get_session tests the global and, when it is None, calls
\* new_session and assigns the result; it holds no lock.  new_session may
\* raise (lifespan logs it, remove_background returns None), which leaves the
\* global None.  Session n is the one the n-th invocation of new_session made.
MaxCallers == 4

Callers == 1..MaxCallers

InitSession ==
    /\ PipeUnused
    /\ FnUnused
    /\ WebUnused
    /\ CacheUnused
    /\ orders = <<>> /\ today = 0
    /\ image_file = <<>> /\ mask_from = <<>> /\ uploaders = <<>>
    /\ paired = [read |-> FALSE]
    /\ session = 0
    /\ new_session_calls = 0
    /\ callers = [c \in Callers |-> [pc |-> "idle", used |-> 0]]

Served(c) == callers[c].pc \in {"returned", "raised"}

\* preload_model() or remove_background() reaches its call of _get_session.
CallGetSession(c) ==
    /\ callers[c].pc = "idle"
    /\ c # 1 => Served(1)
    /\ callers' = [callers EXCEPT ![c].pc = "test"]
    /\ UNCHANGED <<session, new_session_calls>>
    /\ UNCHANGED <<pipeVars, fnVars, webVars, cacheVars, orderVars, raceVars>>

\* if _session is None
TestSession(c) ==
    /\ callers[c].pc = "test"
    /\ callers' = IF session = 0
                  THEN [callers EXCEPT ![c].pc = "load"]
                  ELSE [callers EXCEPT ![c].pc = "returned", ![c].used = session]
    /\ UNCHANGED <<session, new_session_calls>>
    /\ UNCHANGED <<pipeVars, fnVars, webVars, cacheVars, orderVars, raceVars>>

\* _session = new_session("birefnet-general"); return _session
NewSession(c) ==
    /\ callers[c].pc = "load"
    /\ new_session_calls' = new_session_calls + 1
    /\ \E loaded \in BOOLEAN :
          IF loaded
          THEN /\ session' = new_session_calls + 1
               /\ callers' = [callers EXCEPT ![c].pc = "returned",
                                             ![c].used = new_session_calls + 1]
          ELSE /\ callers' = [callers EXCEPT ![c].pc = "raised"]
               /\ UNCHANGED session
    /\ UNCHANGED <<pipeVars, fnVars, webVars, cacheVars, orderVars, raceVars>>

NextSession ==
    \/ \E c \in Callers : CallGetSession(c)
    \/ \E c \in Callers : TestSession(c)
    \/ \E c \in Callers : NewSession(c)

SpecSession == InitSession /\ [][NextSession]_vars

\* ------------------------------------------------------- the two scales
\* mm per px of get_cutting_metrics.
MetricsScale(mm, w_px, h_px) ==
    LET scale_x == IF w_px > 0 THEN <<mm[1], w_px>> ELSE RInt(1)
        scale_y == IF h_px > 0 THEN <<mm[2], h_px>> ELSE RInt(1)
    IN  RNorm(RHalf(RAdd(scale_x, scale_y)))

ScaleSidesPx == {10, 20, 30}
ScaleSidesMm == {10, 20, 40, 45}
ScaleOffsetsMm == {RInt(2), <<5, 2>>}

InitScale ==
    /\ PipeUnused
    /\ WebUnused
    /\ CacheUnused
    /\ ProcUnused
    /\ fn = "none"
    /\ fn_in \in [w_px : ScaleSidesPx, h_px : ScaleSidesPx,
                  w_mm : ScaleSidesMm, h_mm : ScaleSidesMm]
    /\ fn_args \in [offset_mm : ScaleOffsetsMm]
    /\ fn_out = <<>>

\* An offset of offset_mm taken to px by generate_cutting_lines and a length
\* of that many px taken back to mm by get_cutting_metrics, for one size_px
\* and size_mm.
ApplyScales ==
    /\ fn = "none"
    /\ fn' = "scales"
    /\ LET mm == <<fn_in.w_mm, fn_in.h_mm>>
           px_per_mm == Scale(fn_in.w_px, fn_in.h_px, mm)
           mm_per_px == MetricsScale(mm, fn_in.w_px, fn_in.h_px)
           offset_px == RNorm(RMul(fn_args.offset_mm, px_per_mm))
       IN  fn_out' = [px_per_mm |-> px_per_mm, mm_per_px |-> mm_per_px,
                      offset_px |-> offset_px,
                      measured_mm |-> RNorm(RMul(offset_px, mm_per_px))]
    /\ UNCHANGED <<fn_in, fn_args, pipeVars, webVars, cacheVars, procVars>>

NextScale == ApplyScales

SpecScale == InitScale /\ [][NextScale]_vars

\* ---------------------------------------------------------- OrderRepository
\* orders.json as the list of its order_ids; an id ORD-YYYYMMDD-NNNN is the
\* pair <<day, sequence>>.
MaxOrders == 4
MaxDays == 2

InitOrders ==
    /\ PipeUnused
    /\ FnUnused
    /\ WebUnused
    /\ CacheUnused
    /\ session = 0 /\ new_session_calls = 0 /\ callers = <<>>
    /\ image_file = <<>> /\ mask_from = <<>> /\ uploaders = <<>>
    /\ paired = [read |-> FALSE]
    /\ orders = <<>>
    /\ today = 1

\* generate_order_id: one more than the number of today's stored orders.
GenerateOrderId(stored, day) ==
    <<day, Cardinality({i \in 1..Len(stored) : stored[i][1] = day}) + 1>>

\* create(order_data)
Create ==
    /\ Len(orders) < MaxOrders
    /\ orders' = Append(orders, GenerateOrderId(orders, today))
    /\ UNCHANGED today
    /\ UNCHANGED <<pipeVars, fnVars, webVars, cacheVars, sessionVars, raceVars>>

\* delete(order_id), for a stored id (an unknown id changes nothing)
Delete ==
    /\ \E k \in 1..Len(orders) :
          orders' = SelectSeq(orders, LAMBDA o : o # orders[k])
    /\ UNCHANGED today
    /\ UNCHANGED <<pipeVars, fnVars, webVars, cacheVars, sessionVars, raceVars>>

\* midnight
NextDay ==
    /\ today < MaxDays
    /\ today' = today + 1
    /\ UNCHANGED orders
    /\ UNCHANGED <<pipeVars, fnVars, webVars, cacheVars, sessionVars, raceVars>>

NextOrders == Create \/ Delete \/ NextDay

SpecOrders == InitOrders /\ [][NextOrders]_vars

\* ------------------------------------------- two uploads under one file name
\* upload_image stores the upload as temp_<name> and caches the mask as
\* temp_<name>_mask.png; both paths depend on the file name alone.  The
\* handler is a coroutine: it opens temp_<name> for writing, which empties
\* the file, and suspends in `await file.read()`; what follows the await
\* (the write, the analysis of the stored file, save_mask) runs without
\* suspending.  The contents of upload u are chunks <<u, 1>> .. <<u, len>>.
MaxUploaders == 2

Uploaders == 1..MaxUploaders

NotPaired == [read |-> FALSE]

ContentOf(u, len) == [i \in 1..len |-> <<u, i>>]

\* f.write(content) from position 0 of a file another handle has grown.
Overwrite(file, content) ==
    content \o SubSeq(file, Len(content) + 1, Len(file))

InitRace ==
    /\ PipeUnused
    /\ FnUnused
    /\ WebUnused
    /\ CacheUnused
    /\ session = 0 /\ new_session_calls = 0 /\ callers = <<>>
    /\ orders = <<>> /\ today = 0
    /\ image_file = <<>>
    /\ mask_from = <<>>
    /\ paired = NotPaired
    /\ uploaders = [u \in Uploaders |-> [pc |-> "idle", len |-> 0]]

\* temp_path.open("wb"), then the handler waits for the body.
OpenTemp(u) ==
    /\ uploaders[u].pc = "idle"
    /\ \E len \in 1..MaxChunks :
          uploaders' = [uploaders EXCEPT ![u] = [pc |-> "reading", len |-> len]]
    /\ image_file' = <<>>
    /\ UNCHANGED <<mask_from, paired>>
    /\ UNCHANGED <<pipeVars, fnVars, webVars, cacheVars, sessionVars, orderVars>>

\* f.write(content), the file is closed, the mask is made from the stored
\* file and saved.
WriteAndSaveMask(u) ==
    /\ uploaders[u].pc = "reading"
    /\ image_file' = Overwrite(image_file, ContentOf(u, uploaders[u].len))
    /\ mask_from' = image_file'
    /\ uploaders' = [uploaders EXCEPT ![u].pc = "done"]
    /\ UNCHANGED paired
    /\ UNCHANGED <<pipeVars, fnVars, webVars, cacheVars, sessionVars, orderVars>>

\* update_cutting_lines: the stored image and the cached mask of the name.
UpdateCuttingLines ==
    /\ \E u \in Uploaders : uploaders[u].pc # "idle"
    /\ mask_from # <<>>
    /\ paired' = [read |-> TRUE, image |-> image_file, mask |-> mask_from]
    /\ UNCHANGED <<image_file, mask_from, uploaders>>
    /\ UNCHANGED <<pipeVars, fnVars, webVars, cacheVars, sessionVars, orderVars>>

NextRace ==
    \/ \E u \in Uploaders : OpenTemp(u)
    \/ \E u \in Uploaders : WriteAndSaveMask(u)
    \/ UpdateCuttingLines

SpecRace == InitRace /\ [][NextRace]_vars

\* ------------------------------------------------------------------ claims
Returned == pc = "done" /\ result.ok
PrintMask == heap[result.print_mask]
CuttingMask == heap[result.cutting_mask]
CuttingBox == BoundingRect(result.cutting_contour)

\* C1: after generate_cutting_lines returns a result computed with both
\* offsets positive, the input mask's foreground is contained in the print
\* mask's and the print mask's in the cutting mask's, for every mask, product
\* type, hole type and position.
C1_Nesting ==
    (Returned /\ RPos(print_offset_px) /\ RPos(cutting_offset_px))
        => (given \subseteq PrintMask /\ PrintMask \subseteq CuttingMask)

\* C2: whenever generate_offset_contour returns a mask for offset_px > 0, the
\* mask's foreground is a strict superset of its input's foreground (stage 1:
\* the caller's mask; stage 2: the print mask).
C2_StrictSuperset ==
    /\ (pc = "cutting" /\ RPos(print_offset_px))
          => (given \subseteq print_stage.out /\ given # print_stage.out)
    /\ (pc = "holes" /\ RPos(cutting_offset_px))
          => (/\ print_stage.out \subseteq cutting_stage.out
              /\ print_stage.out # cutting_stage.out)

\* C4 as claimed: a ring hole's centre lies strictly beyond the edge of the
\* cutting contour's bounding box named by the position (above the top row
\* for top and for an unrecognised position, left of the first column for
\* left, past the last row or column for bottom and right), whatever the
\* scale, hole diameter and edge distance.
RingPlaced == Returned /\ result.product_type = "keyring"
              /\ result.hole_type = "ring"
C4_HoleBeyondEdge ==
    RingPlaced =>
        CASE result.keyring_position = "bottom" ->
                result.hole_center[2] > CuttingBox.y + CuttingBox.bh - 1
          [] result.keyring_position = "left" ->
                result.hole_center[1] < CuttingBox.x
          [] result.keyring_position = "right" ->
                result.hole_center[1] > CuttingBox.x + CuttingBox.bw - 1
          [] OTHER -> result.hole_center[2] < CuttingBox.y

\* C4 amended: the centre is never inside the edge, and is strictly beyond the
\* top (left) edge exactly when the truncated edge distance plus the truncated
\* hole radius is at least 1 px; it is always past the last row (column) for
\* bottom (right).
RingReach == Trunc(hole_px.edge_d_px) + Trunc(RHalf(hole_px.hole_d_px))
C4_HoleBeyondEdgeWhenReach ==
    RingPlaced =>
        CASE result.keyring_position = "bottom" ->
                result.hole_center[2] > CuttingBox.y + CuttingBox.bh - 1
          [] result.keyring_position = "left" ->
                /\ result.hole_center[1] <= CuttingBox.x
                /\ (result.hole_center[1] < CuttingBox.x) <=> (RingReach >= 1)
          [] result.keyring_position = "right" ->
                result.hole_center[1] > CuttingBox.x + CuttingBox.bw - 1
          [] OTHER ->
                /\ result.hole_center[2] <= CuttingBox.y
                /\ (result.hole_center[2] < CuttingBox.y) <=> (RingReach >= 1)
C4_Witness ==
    /\ RingPlaced
    /\ result.keyring_position = "top"
    /\ RingReach >= 1
    /\ result.hole_center[2] < CuttingBox.y

\* C8: when product_type is not keyring the result carries no hole
\* (hole_center None, hole_radius_px 0, hole_size_px None) and its cutting
\* mask is exactly the array and the contents the second offset stage produced.
C8_NoHoleUnlessKeyring ==
    (Returned /\ result.product_type # "keyring")
        => /\ result.hole_center = <<>>
           /\ result.hole_radius_px = 0
           /\ result.hole_size_px = <<>>
           /\ result.cutting_mask = cutting_stage.ref
           /\ CuttingMask = cutting_stage.out
C8_Witness ==
    /\ Returned
    /\ result.product_type = "objet"
    /\ result.hole_type = "internal"
    /\ result.keyring_position = "bottom"
    /\ CuttingMask # {}

\* C9: the caller's mask is never changed by generate_cutting_lines, whatever
\* the offsets (a stage with offset <= 0 hands back a copy), and punching the
\* internal hole into the cutting mask leaves the print mask as stage 1
\* produced it.
C9_MasksNotMutated ==
    /\ heap["mask"] = given
    /\ Returned => PrintMask = print_stage.out
C9_Witness ==
    /\ Returned
    /\ ~RPos(print_offset_px)
    /\ ~RPos(cutting_offset_px)
    /\ result.hole_type = "internal"
    /\ CuttingMask # cutting_stage.out
    /\ PrintMask = cutting_stage.out

\* C10: hole placement changes the cutting mask only by the internal cutout,
\* made after both offset stages: until hole placement the cutting mask is as
\* stage 2 produced it; for a ring it stays so; for an internal hole no pixel
\* is set, and every pixel cleared lies inside the ellipse centred at
\* hole_center with half-axes hole_size_px // 2.
InsideEllipse(p, center, a, b) ==
    /\ Abs(p[1] - center[1]) <= a
    /\ Abs(p[2] - center[2]) <= b
    /\ (p[1] - center[1]) * (p[1] - center[1]) * b * b
         + (p[2] - center[2]) * (p[2] - center[2]) * a * a <= a * a * b * b
InternalApplied == fn = "internal"
RingApplied == fn = "ring"
SizeApplied == fn = "size"
NamedEdges == {"top", "bottom", "left", "right"}
HalfW == Trunc(RHalf(fn_args.hole_w_px))
HalfH == Trunc(RHalf(fn_args.hole_h_px))
InBox(p, box) ==
    /\ box.x <= p[1] /\ p[1] <= box.x + box.bw - 1
    /\ box.y <= p[2] /\ p[2] <= box.y + box.bh - 1

RingDist == Trunc(fn_args.edge_distance_px)
RingRadius == Trunc(RHalf(fn_args.hole_diameter_px))
\* How far the centre lies beyond the named edge of the box, and whether it is
\* at the box's midpoint on the other axis.
RingDisplacement ==
    CASE fn_args.position = "bottom" ->
            fn_out.hole_center[2] - (fn_in.box.y + fn_in.box.bh)
      [] fn_args.position = "left" -> fn_in.box.x - fn_out.hole_center[1]
      [] fn_args.position = "right" ->
            fn_out.hole_center[1] - (fn_in.box.x + fn_in.box.bw)
      [] OTHER -> fn_in.box.y - fn_out.hole_center[2]
RingCentred ==
    IF fn_args.position \in {"left", "right"}
    THEN fn_out.hole_center[2] = fn_in.box.y + fn_in.box.bh \div 2
    ELSE fn_out.hole_center[1] = fn_in.box.x + fn_in.box.bw \div 2
\* Some pixel within hole_radius of the centre belongs to the bounding box.
DiscMeetsBox ==
    \E dx \in (0 - RingRadius) .. RingRadius, dy \in (0 - RingRadius) .. RingRadius :
        /\ dx * dx + dy * dy <= RingRadius * RingRadius
        /\ InBox(<<fn_out.hole_center[1] + dx, fn_out.hole_center[2] + dy>>,
                 fn_in.box)

\* C5 (as stated): the ring hole centre is displaced outward from the named
\* edge by exactly int(edge_distance) + hole_radius, is centred on the other
\* axis of the box, and its disc contains no point of the bounding box.
C5_RingOutsideBox ==
    (RingApplied /\ fn_args.position \in NamedEdges) =>
        /\ RingDisplacement = RingDist + RingRadius
        /\ RingCentred
        /\ ~DiscMeetsBox

\* C5 (amended): displacement and centring as stated (any other position is
\* placed as top); the disc contains a pixel of the bounding box exactly when
\* int(edge_distance) = 0 and the edge is the top or left one.
C5_RingOutsideBoxUnlessZeroDistance ==
    RingApplied =>
        /\ RingDisplacement = RingDist + RingRadius
        /\ RingCentred
        /\ DiscMeetsBox <=>
              (RingDist = 0 /\ fn_args.position \notin {"bottom", "right"})

\* A hole with a real radius placed beyond the left edge at a real distance.
C5_Witness ==
    /\ RingApplied
    /\ fn_args.position = "left"
    /\ RingRadius >= 1
    /\ RingDist >= 1
    /\ fn_out.hole_center[1] = fn_in.box.x - RingDist - RingRadius
    /\ fn_out.hole_r = RingRadius

\* C6: the internal hole centre lies inside the cutting contour's bounding
\* box, moved inward from the named edge by int(edge_distance), for every
\* bounding box size, edge distance and image size.
C6_CentreInsideBox ==
    (InternalApplied /\ fn_args.position \in NamedEdges) =>
        LET box == fn_in.box
            dist == Trunc(fn_args.edge_distance_px)
            c == fn_out.hole_center
        IN  /\ InBox(c, box)
            /\ CASE fn_args.position = "top" -> c[2] = box.y + dist
                 [] fn_args.position = "bottom" -> c[2] = box.y + box.bh - dist
                 [] fn_args.position = "left" -> c[1] = box.x + dist
                 [] fn_args.position = "right" -> c[1] = box.x + box.bw - dist

REq(a, b) == a[1] * b[2] = b[1] * a[2]
Analyzed == fn = "analyze"
Converted == fn = "convert"
MainOfInput == MainContour(FindContoursOf(fn_in.blobs))
InUnit(v) == RLe(RInt(0), v) /\ RLe(v, RInt(1))

\* C11: for a mask whose largest external contour encloses at least 100 px2
\* the analysis returns metrics, and fill_ratio, complexity_score,
\* circularity and both sub-scores all lie in [0, 1].
C11_ScoresInUnitInterval ==
    (Analyzed /\ Len(fn_in.blobs) > 0 /\ PolyArea2(MainOfInput) >= 2 * MinAreaPx) =>
        /\ fn_out.ok
        /\ InUnit(fn_out.fill_ratio)
        /\ InUnit(fn_out.complexity_score)
        /\ InUnit(fn_out.circularity)
        /\ InUnit(fn_out.outline_length_score)
        /\ InUnit(fn_out.direction_change_score)

\* A slotted figure: its outline is longer than its bounding box's and has
\* more than four vertices, so both sub-scores are positive.
C11_Witness ==
    /\ Analyzed
    /\ fn_out.ok
    /\ RPos(fn_out.outline_length_score)
    /\ RPos(fn_out.direction_change_score)
    /\ RPos(fn_out.complexity_score)

MainFillRatio == FillRatio(PolyArea2(MainOfInput), BoundingRectOf(MainOfInput))
MainApprox ==
    ApproxPolyDP(MainOfInput,
                 <<ArcLength(MainOfInput)[1], 100 * ArcLength(MainOfInput)[2]>>)
Zero4 == <<0, TenThousandths>>

RectangleMask ==
    /\ Len(fn_in.blobs) = 1
    /\ fn_in.blobs[1].kind = "rect"
    /\ PolyArea2(MainOfInput) >= 2 * MinAreaPx
C13_PerfectRectangle ==
    (Analyzed /\ RectangleMask) =>
        /\ fn_out.ok
        /\ fn_out.vertex_count = 4
        /\ fn_out.complexity_score = Zero4
        /\ fn_out.fill_ratio = <<TenThousandths, TenThousandths>>

\* C14: convert_to_mm uses s = (target_width_mm / bbox_width_px +
\* target_height_mm / bbox_height_px) / 2, sets area_mm2 = area_px * s^2 and
\* perimeter_mm = perimeter_px * s, each rounded to 2 decimals; with the
\* targets equal to the bounding box's pixel sizes area_mm2 equals area_px.
C14_ScaleConsistent ==
    Converted =>
        LET m == fn_args.metrics
            tw == fn_args.target_width_mm
            th == fn_args.target_height_mm
            s == RNorm(<<tw[1] * th[2] * m.bounding_box_px[2]
                            + th[1] * tw[2] * m.bounding_box_px[1],
                         2 * tw[2] * th[2] * m.bounding_box_px[1]
                            * m.bounding_box_px[2]>>)
            s2 == <<s[1] * s[1], s[2] * s[2]>>
        IN  /\ fn_out.area_mm2 = Round2(<<m.contour_area2 * s2[1], 2 * s2[2]>>)
            /\ fn_out.perimeter_mm =
                   Round2(<<m.contour_perimeter_px[1] * s[1],
                            m.contour_perimeter_px[2] * s[2]>>)
            /\ (tw = RInt(m.bounding_box_px[1]) /\ th = RInt(m.bounding_box_px[2]))
                   => fn_out.area_mm2 = <<50 * m.contour_area2, Hundredths>>

\* A conversion with different horizontal and vertical ratios, 30 mm across
\* and half a millimetre per pixel down, that changed the area's value.
C14_Witness ==
    /\ Converted
    /\ fn_args.target_width_mm = RInt(30)
    /\ fn_args.target_height_mm = <<fn_args.metrics.bounding_box_px[2], 2>>
    /\ fn_args.metrics.bounding_box_px[1] # 60
    /\ fn_out.area_mm2 # <<50 * fn_args.metrics.contour_area2, Hundredths>>

\* ------------------------------------------------ claims on the endpoints
Answered == response # NoResponse
Uploading == request.endpoint = "upload_image"
Failed == response.kind \in {"error_card", "http_400"}

\* C15: in upload_image and update_cutting_lines, once the shape metrics are
\* computed, a create_cutting_preview that returns False or raises still ends
\* in a response that carries the shape analysis.
C15_PreviewNeverBlocks ==
    Answered /\ handler.preview \in {"false", "raise"}
        => /\ ~Failed
           /\ response.shape_analysis = handler.shape_analysis
           /\ response.shape_analysis # "none"

\* C16: when the shape analysis of upload_image, update_cutting_lines or
\* calculate_shape yields no metrics, the response is a normal one whose
\* shape analysis is the plain rectangle.
C16_FailureBecomesRectangle ==
    Answered /\ handler.analysis = "none"
        => ~Failed /\ response.shape_analysis = "rectangle"

\* C17: when generate_cutting_lines gives its caller no result, the response
\* still carries the shape analysis computed before it, without the cutting
\* area and perimeter fields, without a cutting preview path and without the
\* keyring size addition.
C17_NoLinesKeepsAnalysis ==
    Answered /\ handler.cutting = "none"
        => /\ response.kind \in {"image_ratio", "cutting_preview"}
           /\ response.shape_analysis = handler.analysis
           /\ response.shape_analysis # "none"
           /\ ~response.cutting_fields
           /\ ~response.cutting_preview_path
           /\ ~response.size_added

C17_Witness ==
    /\ Answered /\ Uploading
    /\ request.product_type = "keyring" /\ request.hole_type = "ring"
    /\ handler.cutting = "none"
    /\ response.shape_analysis = "contour"

\* C18: when remove_background gives upload_image no mask, whether it returned
\* None or rembg could not be imported, a request with a usable target size
\* is analysed from the file instead and answered with the size result.
C18_NoModelFallsBack ==
    (/\ Answered /\ Uploading
     /\ handler.background \in {"none", "import_error"}
     /\ request.target_dimension = "auto" \/ request.target_size_ok)
        => /\ response.kind = "image_ratio"
           /\ handler.analysis # "uncalled"

\* C19: an upload_image run that ends in an error leaves none of the files it
\* wrote in the upload directory.
C19_FailedUploadLeavesNothing ==
    Uploading /\ Answered /\ Failed => disk = {}

\* ----------------------------------------------- claims on the mask cache
LastSaver == CHOOSE w \in Savers : writers[w].rank = Cardinality(Savers)

\* C20: once two save_mask calls on one path have both returned, the file
\* holds exactly the encoded mask of the call that returned last.
C20_LastWriteWins ==
    (\A w \in Savers : Closed(w))
        => mask_file = Encoded(LastSaver, writers[LastSaver].len)

\* ------------------------------------ claims on generate_offset_contour
OffsetApplied == fn = "offset"

\* C21: for offset_px <= 0, generate_offset_contour returns (None, None)
\* exactly when the mask has no contour, and otherwise a contour of the input
\* mask of the largest area together with a new array equal to the input
\* mask.
C21_DegenerateOffset ==
    OffsetApplied /\ ~RPos(fn_in.offset_px)
        => /\ fn_out.found <=> fn_in.mask # {}
           /\ fn_out.found =>
                 /\ fn_out.contour \in FindContours(fn_in.mask)
                 /\ \A c \in FindContours(fn_in.mask) :
                       ContourArea2(c) <= ContourArea2(fn_out.contour)
                 /\ fn_out.mask = fn_in.mask
                 /\ ~fn_out.alias

C21_Witness ==
    /\ OffsetApplied
    /\ fn_in.offset_px = RInt(-1)
    /\ fn_out.found
    /\ Cardinality(FindContours(fn_in.mask)) = 2
    /\ fn_out.mask # FillContour(fn_out.contour)

\* C23: for offset_px > 0 the dilation of generate_offset_contour reaches the
\* offset: iterations times the radius (kernel_size - 1) / 2 of the
\* structuring element is at least offset_px.
C23_DilationReachesOffset ==
    OffsetApplied /\ RPos(fn_in.offset_px)
        => RLe(fn_in.offset_px,
               <<fn_out.iterations * (fn_out.kernel_size - 1), 2>>)

\* ------------------------------------------------ claims on _create_mask
MaskCreated == fn = "create_mask"
CornerSucceeds ==
    /\ fn_in.h >= 20 /\ fn_in.w >= 20
    /\ 2 * fn_in.dominant[1] >= fn_in.dominant[2]
    /\ 100 * fn_in.corner_fg[1] >= fn_in.corner_fg[2]
    /\ 100 * fn_in.corner_fg[1] <= 95 * fn_in.corner_fg[2]

ComplexityApplied == fn = "complexity"
Unit(v) == IF v[1] < 0 THEN RInt(0) ELSE IF v[1] > v[2] THEN RInt(1) ELSE v
\* perimeter / bbox_perimeter - 1, clamped
OutlineTerm(a) ==
    LET bp == 2 * (fn_in.bw + fn_in.bh)
    IN  Unit(<<a.perimeter[1] - bp * a.perimeter[2], bp * a.perimeter[2]>>)
\* (vertex_count - 4) / 32, clamped
VertexTerm(a) == Unit(<<a.vertex_count - 4, 32>>)
\* 0.6 vertex term + 0.4 acute ratio
DirectionTerm(a) ==
    RAdd(RMul(<<6, 10>>, VertexTerm(a)), RMul(<<4, 10>>, a.acute_ratio))
Blend(a) == RHalf(RAdd(OutlineTerm(a), DirectionTerm(a)))
FollowsFormula(a, m) ==
    /\ REq(m.outline_length_score, OutlineTerm(a))
    /\ REq(m.direction_change_score, DirectionTerm(a))
    /\ REq(m.score, Blend(a))
    /\ REq(a.perimeter, RInt(2 * (fn_in.bw + fn_in.bh)))
          => REq(m.outline_length_score, RInt(0))
    /\ RLe(RInt(4 * (fn_in.bw + fn_in.bh)), a.perimeter)
          => REq(m.outline_length_score, RInt(1))
    /\ a.vertex_count = 4 => REq(m.direction_change_score,
                                 RMul(<<4, 10>>, a.acute_ratio))
    /\ a.vertex_count >= 36
          => REq(m.direction_change_score,
                 RAdd(<<6, 10>>, RMul(<<4, 10>>, a.acute_ratio)))

\* C24: _calculate_complexity returns score = 0.5 outline_length_score +
\* 0.5 direction_change_score, the outline score being perimeter /
\* bbox_perimeter - 1 clamped to [0, 1] and the direction score
\* 0.6 clamp((vertex_count - 4) / 32) + 0.4 acute_ratio; and raising the
\* perimeter, the vertex count or the acute ratio never lowers the score.
C24_ComplexityFormula ==
    ComplexityApplied
        => /\ FollowsFormula(fn_args.lo, fn_out.lo)
           /\ FollowsFormula(fn_args.hi, fn_out.hi)
           /\ RLe(fn_out.lo.score, fn_out.hi.score)

C24_Witness ==
    /\ ComplexityApplied
    /\ fn_args.lo.vertex_count = 4 /\ fn_args.hi.vertex_count = 20
    /\ fn_args.lo.perimeter = RInt(2 * (fn_in.bw + fn_in.bh))
    /\ fn_args.hi.perimeter = RInt(3 * (fn_in.bw + fn_in.bh))
    /\ fn_args.hi.acute_ratio = <<1, 4>>
    /\ REq(fn_out.hi.score, <<45, 100>>)
    /\ ~REq(fn_out.lo.score, fn_out.hi.score)

\* C25: whenever upload_image answers a keyring request with a shape
\* analysis, for a ring or an internal hole, from the mask or from
\* analyze_image, the drilling fee in it (the drilling_fee field, added to
\* unit_price) is the configured fee.
C25_KeyringPaysDrilling ==
    (/\ Answered /\ Uploading
     /\ request.product_type = "keyring"
     /\ response.shape_analysis # "none")
        => response.drilling_fee = DrillingFee

\* ------------------------------------------------ claims on _get_session
\* C26: over every order and interleaving of preload_model and
\* remove_background calls in one process, new_session is invoked at most
\* once and every call that got a session got the same one.
C26_LoadedOnce ==
    /\ new_session_calls <= 1
    /\ \A c, d \in Callers :
          callers[c].pc = "returned" /\ callers[d].pc = "returned"
             => callers[c].used = callers[d].used

\* --------------------------------------------------- claims on the scales
\* C27: for one size_px and size_mm the mm-per-px scale of
\* get_cutting_metrics times the px-per-mm scale of generate_cutting_lines
\* is 1, and an offset in mm taken to px and measured back is the same
\* offset.
C27_ScalesAreInverse ==
    fn = "scales"
        => /\ REq(RMul(fn_out.px_per_mm, fn_out.mm_per_px), RInt(1))
           /\ REq(fn_out.measured_mm, fn_args.offset_mm)

\* --------------------------------------------- claims on OrderRepository
\* C28: after any sequence of create and delete calls no two stored orders
\* have the same order_id.
C28_UniqueOrderIds ==
    \A i, j \in 1..Len(orders) : i # j => orders[i] # orders[j]

\* ------------------------------------- claims on the ring and the addition
RingReachOf(kh) == Trunc(kh.edge_distance_mm) + Trunc(RHalf(kh.diameter_mm))
\* The ring sits above or below the box, centred on its width.
PlacedVertically ==
    /\ fn_out.hole.hole_center[1] = fn_in.box.x + fn_in.box.bw \div 2
    /\ fn_out.hole.hole_center[2] \in
          {fn_in.box.y - RingReachOf(fn_args.keyring_hole),
           fn_in.box.y + fn_in.box.bh + RingReachOf(fn_args.keyring_hole)}
\* The ring sits left or right of the box, centred on its height.
PlacedHorizontally ==
    /\ fn_out.hole.hole_center[2] = fn_in.box.y + fn_in.box.bh \div 2
    /\ fn_out.hole.hole_center[1] \in
          {fn_in.box.x - RingReachOf(fn_args.keyring_hole),
           fn_in.box.x + fn_in.box.bw + RingReachOf(fn_args.keyring_hole)}

\* C29: for every keyring_position, named or not, the size addition is on
\* the height when the ring is placed above or below the cutting contour's
\* bounding box and on the width when it is placed left or right of it.
C29_AdditionFollowsRing ==
    fn = "ring_and_addition"
        => /\ RPos(fn_out.addition[2]) => PlacedVertically
           /\ RPos(fn_out.addition[1]) => PlacedHorizontally

\* -------------------------------------------- claims on the two uploads
UploadsDone == \A u \in Uploaders : uploaders[u].pc = "done"
IsUploadOf(u, bytes) == bytes = ContentOf(u, uploaders[u].len)

\* C30: once the uploads under one file name have all returned, the stored
\* image is exactly the bytes of one of them and the cached mask was made
\* from that same upload, and so are the image and the mask that a later
\* update_cutting_lines reads.
C30_ImageAndMaskOfOneUpload ==
    UploadsDone
        => /\ \E u \in Uploaders :
                 IsUploadOf(u, image_file) /\ IsUploadOf(u, mask_from)
           /\ paired.read
                 => \E u \in Uploaders :
                       IsUploadOf(u, paired.image) /\ IsUploadOf(u, paired.mask)

=============================================================================
